---- MODULE Spec2Model ----
(***************************************************************************)
(* EdgeHunter kernel: engine loop, command/inbound queues, DataHub and     *)
(* Hard Gates, translated from src/src/*.py.                               *)
(*                                                                         *)
(* Conventions                                                             *)
(*   Optional[T]  : None is <<>>, a present value v is <<v>>.              *)
(*   prices       : integers in hundredths (18500.25 is 1850025).          *)
(*   monotonic ns : counted in clock units, MonoPerMs units per            *)
(*                  millisecond (the code's 1_000_000 ns per ms).          *)
(***************************************************************************)
EXTENDS Integers, Sequences, FiniteSets, TLC

VARIABLES
    engine,     \* EngineLoop fields (engine.py:46-86)
    pc,         \* position of every engine thread in _run_loop
    loc,        \* locals of every engine thread's current cycle
    ctl,        \* position of the caller of start()/stop()
    cmdq,       \* CommandQueue._queue
    inq,        \* InboundQueue._queue
    hub,        \* DataHub._snapshot
    mono,       \* clock.now_mono_ns()
    local_h,    \* clock.now_local(), in whole hours since day 0, 00:00
    ui,         \* MinimalCLI._cmd_id_counter
    seen,       \* what each reader's latest get_latest() returned
    gin,        \* GateInputs handed to evaluate_hard_gates
    gout,       \* what evaluate_hard_gates returned for gin
    drn,        \* locals of a CommandQueue.drain() call in progress
    dh,         \* DataHub._lock and the publish / get_latest calls in progress
    tcl,        \* TriggerCardLogger fields and the tick() call in progress
    disk,       \* the log directory: file contents and the open file handles
    vfile,      \* the file handed to validate_triggercard_file
    vres,       \* what validate_triggercard_file returned for vfile
    adp,        \* IBKRAdapter / AdapterRunner: the runner thread
    proc,       \* the process: main()'s position, MinimalCLI.run, exit code
    hist        \* bookkeeping for the properties (not program state)

vars == <<engine, pc, loc, ctl, cmdq, inq, hub, mono, local_h, ui, seen,
          gin, gout, drn, dh, tcl, disk, vfile, vres, adp, proc, hist>>

-----------------------------------------------------------------------------
(* Optional values *)

None == <<>>

Some(v) == <<v>>

IsNone(x) == x = <<>>

Val(x) == x[1]

-----------------------------------------------------------------------------
(* Bounds of the model *)

\* clock units per millisecond
MonoPerMs == 2

\* engine threads that start() may create over a run
MaxThreads == 2

\* capacity the queues are constructed with (maxsize)
CmdQueueMax == 2

InQueueMax == 2

\* inputs the environment delivers over a run: commands sent, events pushed,
\* advances of the monotonic clock and of the local hour
MaxInputs == 2

\* concurrent readers of the DataHub
NumReaders == 2

-----------------------------------------------------------------------------
(* gates.py : thresholds and reason codes *)

STALE_THRESHOLD_MS == 5000

FEED_HEARTBEAT_TIMEOUT_MS == 10000

MAX_SPREAD_TICKS == 4

REASON_ARM_OFF == "ARM_OFF"

REASON_INTENT_FLAT == "INTENT_FLAT"

REASON_OUTSIDE_OPERATING_WINDOW == "OUTSIDE_OPERATING_WINDOW"

REASON_SESSION_BREAK == "SESSION_BREAK"

REASON_FEED_DISCONNECTED == "FEED_DISCONNECTED"

REASON_MD_NOT_REALTIME == "MD_NOT_REALTIME"

REASON_NO_CONTRACT == "NO_CONTRACT"

REASON_STALE_DATA == "STALE_DATA"

REASON_SPREAD_UNAVAILABLE == "SPREAD_UNAVAILABLE"

REASON_SPREAD_WIDE == "SPREAD_WIDE"

REASON_ENGINE_DEGRADED == "ENGINE_DEGRADED"

\* list.append guarded by an if
AppendIf(cond, s, code) == IF cond THEN Append(s, code) ELSE s

\* _check_stale_data: three conditions, each returning True at once
_check_stale_data(inputs) ==
    IF IsNone(inputs.bid) /\ IsNone(inputs.ask) /\ IsNone(inputs.last)
    THEN TRUE
    ELSE IF ~IsNone(inputs.quote_staleness_ms)
            /\ Val(inputs.quote_staleness_ms) > inputs.stale_threshold_ms
    THEN TRUE
    ELSE IF ~IsNone(inputs.last_quote_event_mono_ns)
    THEN LET age_ns == inputs.ts_mono_ns - Val(inputs.last_quote_event_mono_ns)
             age_ms == age_ns \div MonoPerMs
         IN  age_ms > inputs.feed_heartbeat_timeout_ms
    ELSE FALSE

\* Gate 9 is an if / elif over the quote sides and the spread
SpreadUnavailable(inputs) ==
    IF IsNone(inputs.bid) \/ IsNone(inputs.ask)
    THEN TRUE
    ELSE IsNone(inputs.spread_ticks) \/ Val(inputs.spread_ticks) <= 0

\* Gate 10 is checked only when a spread is there
SpreadWide(inputs) ==
    /\ ~IsNone(inputs.spread_ticks)
    /\ Val(inputs.spread_ticks) > 0
    /\ Val(inputs.spread_ticks) > inputs.max_spread_ticks

\* the metrics dict filled next to the gates
GateMetrics(inputs) ==
    [ arm                      |-> inputs.arm,
      intent                   |-> inputs.intent,
      in_operating_window      |-> inputs.in_operating_window,
      is_break_window          |-> inputs.is_break_window,
      connected                |-> inputs.feed_connected,
      md_mode                  |-> inputs.md_mode,
      con_id                   |-> inputs.con_id,
      staleness_ms             |-> inputs.quote_staleness_ms,
      last_quote_event_mono_ns |-> inputs.last_quote_event_mono_ns,
      spread_ticks             |-> inputs.spread_ticks,
      engine_degraded          |-> inputs.engine_degraded ]

\* GateReasons with gate 2 written as "elif": ARM_OFF hides INTENT_FLAT
GateReasons_Elif(inputs) ==
    LET r1  == AppendIf(~inputs.arm, <<>>, REASON_ARM_OFF)
        r2  == IF ~inputs.arm THEN r1
               ELSE AppendIf(inputs.intent = "FLAT", r1, REASON_INTENT_FLAT)
        r3  == AppendIf(~inputs.in_operating_window, r2,
                        REASON_OUTSIDE_OPERATING_WINDOW)
        r4  == AppendIf(inputs.is_break_window, r3, REASON_SESSION_BREAK)
        r5  == AppendIf(~inputs.feed_connected, r4, REASON_FEED_DISCONNECTED)
        r6  == AppendIf(inputs.md_mode # "REALTIME", r5, REASON_MD_NOT_REALTIME)
        r7  == AppendIf(IsNone(inputs.con_id), r6, REASON_NO_CONTRACT)
        r8  == AppendIf(_check_stale_data(inputs), r7, REASON_STALE_DATA)
        r9  == AppendIf(SpreadUnavailable(inputs), r8, REASON_SPREAD_UNAVAILABLE)
        r10 == AppendIf(SpreadWide(inputs), r9, REASON_SPREAD_WIDE)
        r11 == AppendIf(inputs.engine_degraded, r10, REASON_ENGINE_DEGRADED)
    IN  r11

\* the eleven gates appended in source order
GateReasons(inputs) ==
    LET r1  == AppendIf(~inputs.arm, <<>>, REASON_ARM_OFF)
        r2  == AppendIf(inputs.intent = "FLAT", r1, REASON_INTENT_FLAT)
        r3  == AppendIf(~inputs.in_operating_window, r2,
                        REASON_OUTSIDE_OPERATING_WINDOW)
        r4  == AppendIf(inputs.is_break_window, r3, REASON_SESSION_BREAK)
        r5  == AppendIf(~inputs.feed_connected, r4, REASON_FEED_DISCONNECTED)
        r6  == AppendIf(inputs.md_mode # "REALTIME", r5, REASON_MD_NOT_REALTIME)
        r7  == AppendIf(IsNone(inputs.con_id), r6, REASON_NO_CONTRACT)
        r8  == AppendIf(_check_stale_data(inputs), r7, REASON_STALE_DATA)
        r9  == AppendIf(SpreadUnavailable(inputs), r8, REASON_SPREAD_UNAVAILABLE)
        r10 == AppendIf(SpreadWide(inputs), r9, REASON_SPREAD_WIDE)
        r11 == AppendIf(inputs.engine_degraded, r10, REASON_ENGINE_DEGRADED)
    IN  r11

\* GateAllowed that tolerates one failing gate
GateAllowed_OffByOne(reasons) == Len(reasons) <= 1

\* allowed = len(reasons) == 0
GateAllowed(reasons) == Len(reasons) = 0

evaluate_hard_gates(inputs) ==
    LET reasons == GateReasons(inputs)
    IN  [ allowed      |-> GateAllowed(reasons),
          reason_codes |-> reasons,
          gate_metrics |-> GateMetrics(inputs) ]

-----------------------------------------------------------------------------
(* events.py, command_queue.py : the records that travel through the queues *)

MarketDataMode == {"REALTIME", "DELAYED", "FROZEN", "NONE"}

Intents == {"LONG", "SHORT", "BOTH", "FLAT"}

\* the intents the CLI keys send (i: LONG, f: FLAT)
UiIntents == {"LONG", "FLAT"}

QuoteEvent(ts_mono, ts_unix, p) ==
    [ type |-> "quote", ts_recv_mono_ns |-> ts_mono, ts_recv_unix_ms |-> ts_unix,
      con_id |-> p.con_id, bid |-> p.bid, ask |-> p.ask, last |-> p.last,
      bid_size |-> p.bid_size, ask_size |-> p.ask_size,
      ts_exch_unix_ms |-> p.ts_exch_unix_ms ]

StatusEvent(ts_mono, ts_unix, p) ==
    [ type |-> "status", ts_recv_mono_ns |-> ts_mono, ts_recv_unix_ms |-> ts_unix,
      connected |-> p.connected, md_mode |-> p.md_mode, reason |-> p.reason,
      error_code |-> p.error_code ]

AdapterErrorEvent(ts_mono, ts_unix, p) ==
    [ type |-> "error", ts_recv_mono_ns |-> ts_mono, ts_recv_unix_ms |-> ts_unix,
      error_code |-> p.error_code, error_msg |-> p.error_msg,
      request_id |-> None ]

IntentCommand(id, ts, intent) ==
    [ type |-> "intent", cmd_id |-> id, ts_unix_ms |-> ts, intent |-> intent ]

ArmCommand(id, ts, arm) ==
    [ type |-> "arm", cmd_id |-> id, ts_unix_ms |-> ts, arm |-> arm ]

\* CoalescedBatch() with its defaults
EmptyBatch ==
    [ intent |-> None, arm |-> None, last_cmd_id |-> 0,
      last_cmd_ts_unix_ms |-> None ]

\* CoalesceStep that keeps the first value of a kind instead of the last
CoalesceStep_FirstWins(b, cmd) ==
    IF cmd.type = "intent"
    THEN [ b EXCEPT !.intent = IF IsNone(@) THEN Some(cmd.intent) ELSE @,
                    !.last_cmd_id = cmd.cmd_id,
                    !.last_cmd_ts_unix_ms = Some(cmd.ts_unix_ms) ]
    ELSE IF cmd.type = "arm"
    THEN [ b EXCEPT !.arm = IF IsNone(@) THEN Some(cmd.arm) ELSE @,
                    !.last_cmd_id = cmd.cmd_id,
                    !.last_cmd_ts_unix_ms = Some(cmd.ts_unix_ms) ]
    ELSE b

\* one turn of the coalescing for-loop of CommandQueue.drain
CoalesceStep(b, cmd) ==
    IF cmd.type = "intent"
    THEN [ b EXCEPT !.intent = Some(cmd.intent),
                    !.last_cmd_id = cmd.cmd_id,
                    !.last_cmd_ts_unix_ms = Some(cmd.ts_unix_ms) ]
    ELSE IF cmd.type = "arm"
    THEN [ b EXCEPT !.arm = Some(cmd.arm),
                    !.last_cmd_id = cmd.cmd_id,
                    !.last_cmd_ts_unix_ms = Some(cmd.ts_unix_ms) ]
    ELSE b

RECURSIVE CoalesceFrom(_, _)
\* the for-loop over the drained commands, first to last
CoalesceFrom(b, commands) ==
    IF commands = <<>> THEN b
    ELSE CoalesceFrom(CoalesceStep(b, Head(commands)), Tail(commands))

Coalesce(commands) == CoalesceFrom(EmptyBatch, commands)

\* queue.Queue.put_nowait: room left under maxsize
CanPut(q, maxsize) == Len(q) < maxsize

-----------------------------------------------------------------------------
(* clock.py : SystemClock and SessionManager *)

WALL_EPOCH_MS == 1000

\* wall clock, tied to the monotonic clock of the model
now_unix_ms == WALL_EPOCH_MS + (mono \div MonoPerMs)

OPERATING_START_HOUR == 7

OPERATING_END_HOUR == 16

BREAK_START_HOUR == 17

BREAK_END_HOUR == 18

\* datetime.hour of a local time given in hours since day 0, 00:00
HourOf(h) == h % 24

\* datetime.date() of that local time, as a day number
DateOf(h) == h \div 24

\* session_date_iso that rolls only once the break start hour is over
session_date_iso_AfterBreakStart(h) ==
    IF HourOf(h) > BREAK_START_HOUR THEN DateOf(h + 24) ELSE DateOf(h)

\* session_date_iso: tomorrow's date from the break start on
session_date_iso(h) ==
    IF HourOf(h) >= BREAK_START_HOUR THEN DateOf(h + 24) ELSE DateOf(h)

is_break_window(h) == BREAK_START_HOUR <= HourOf(h) /\ HourOf(h) < BREAK_END_HOUR

\* in_operating_window with the end hour inside the window
in_operating_window_EndInclusive(h) ==
    OPERATING_START_HOUR <= HourOf(h) /\ HourOf(h) <= OPERATING_END_HOUR

in_operating_window(h) ==
    OPERATING_START_HOUR <= HourOf(h) /\ HourOf(h) < OPERATING_END_HOUR

session_phase(h) ==
    IF is_break_window(h) THEN "BREAK"
    ELSE IF in_operating_window(h) THEN "OPERATING"
    ELSE "CLOSED"

-----------------------------------------------------------------------------
(* snapshot.py : the DTOs the engine builds *)

\* InstrumentDTO() with its defaults; tick_size 0.25 is 25 hundredths
TICK_SIZE == 25

InstrumentDTO ==
    [ symbol |-> "MNQ", contract_key |-> "MNQ.202603", con_id |-> None,
      tick_size |-> TICK_SIZE ]

\* the fields the frozen dataclass SessionDTO declares
SessionDTOFields == {"in_operating_window", "is_break_window", "session_date_iso"}

\* the keyword arguments _run_cycle_once passes to SessionDTO(...)
SessionDTOKwargs ==
    {"in_operating_window", "is_break_window", "session_date_iso", "session_phase"}

\* a dataclass __init__ raises TypeError on a keyword that is not a field
ConstructsSessionDTO == SessionDTOKwargs \subseteq SessionDTOFields

-----------------------------------------------------------------------------
(* engine.py : EngineLoop *)

Threads == 1..MaxThreads

Readers == 1..NumReaders

RUN_ID == "run-uuid4"

CYCLE_TARGET_MS == 100

OVERRUN_THRESHOLD_MS == 500

\* EngineLoop.__init__
InitEngine ==
    [ run_id |-> RUN_ID,
      run_start_ts_unix_ms |-> WALL_EPOCH_MS,
      snapshot_id |-> 0,
      running |-> FALSE,
      thread |-> None,
      intent |-> "FLAT",
      arm |-> FALSE,
      last_cmd_id |-> 0,
      last_cmd_ts_unix_ms |-> None,
      feed_connected |-> FALSE,
      md_mode |-> "NONE",
      feed_status_reason_codes |-> <<>>,
      feed_last_status_change_mono_ns |-> None,
      quote_bid |-> None,
      quote_ask |-> None,
      quote_last |-> None,
      quote_bid_size |-> None,
      quote_ask_size |-> None,
      quote_ts_recv_unix_ms |-> None,
      quote_ts_recv_mono_ns |-> None,
      quote_ts_exch_unix_ms |-> None,
      last_any_event_mono_ns |-> None,
      last_quote_event_mono_ns |-> None,
      quotes_received_count |-> 0 ]

\* "if x is not None: self.f = x"
Overwrite(new, old) == IF IsNone(new) THEN old ELSE new

\* body of the for-loop of _drain_inbound_events
ApplyEvent(eng, event) ==
    LET e1 == [ eng EXCEPT !.last_any_event_mono_ns = Some(event.ts_recv_mono_ns) ]
    IN  IF event.type = "quote"
        THEN [ e1 EXCEPT
                 !.last_quote_event_mono_ns = Some(event.ts_recv_mono_ns),
                 !.quotes_received_count = @ + 1,
                 !.quote_bid = Overwrite(event.bid, @),
                 !.quote_ask = Overwrite(event.ask, @),
                 !.quote_last = Overwrite(event.last, @),
                 !.quote_bid_size = Overwrite(event.bid_size, @),
                 !.quote_ask_size = Overwrite(event.ask_size, @),
                 !.quote_ts_recv_unix_ms = Some(event.ts_recv_unix_ms),
                 !.quote_ts_recv_mono_ns = Some(event.ts_recv_mono_ns),
                 !.quote_ts_exch_unix_ms = event.ts_exch_unix_ms ]
        ELSE IF event.type = "status"
        THEN LET changed == \/ event.connected # eng.feed_connected
                            \/ event.md_mode # eng.md_mode
             IN  [ e1 EXCEPT
                     !.feed_connected = event.connected,
                     !.md_mode = event.md_mode,
                     !.feed_status_reason_codes =
                         IF ~IsNone(event.reason) /\ Val(event.reason) # ""
                         THEN <<Val(event.reason)>> ELSE @,
                     !.feed_last_status_change_mono_ns =
                         IF changed THEN Some(event.ts_recv_mono_ns) ELSE @ ]
        ELSE IF event.type = "error"
        THEN [ e1 EXCEPT
                 !.feed_status_reason_codes =
                     IF event.error_msg # "" THEN <<event.error_msg>> ELSE @ ]
        ELSE e1

RECURSIVE ApplyEvents(_, _)
\* the for-loop over the drained events, first to last
ApplyEvents(eng, events) ==
    IF events = <<>> THEN eng
    ELSE ApplyEvents(ApplyEvent(eng, Head(events)), Tail(events))

\* ApplyBatch that falls back to the defaults when the batch has no value
ApplyBatch_Reset(eng, batch) ==
    [ eng EXCEPT
        !.intent = IF IsNone(batch.intent) THEN "FLAT" ELSE Val(batch.intent),
        !.arm = IF IsNone(batch.arm) THEN FALSE ELSE Val(batch.arm),
        !.last_cmd_id = batch.last_cmd_id,
        !.last_cmd_ts_unix_ms = batch.last_cmd_ts_unix_ms ]

\* _drain_commands, after command_queue.drain() has returned batch
ApplyBatch(eng, batch) ==
    LET e1 == IF ~IsNone(batch.intent)
              THEN [ eng EXCEPT !.intent = Val(batch.intent) ] ELSE eng
        e2 == IF ~IsNone(batch.arm)
              THEN [ e1 EXCEPT !.arm = Val(batch.arm) ] ELSE e1
    IN  IF batch.last_cmd_id > 0
        THEN [ e2 EXCEPT !.last_cmd_id = batch.last_cmd_id,
                         !.last_cmd_ts_unix_ms = batch.last_cmd_ts_unix_ms ]
        ELSE e2

Max(a, b) == IF a >= b THEN a ELSE b

\* quote_staleness_ms of _run_cycle_once
QuoteStalenessMs(eng, cycle_start_mono_ns) ==
    IF IsNone(eng.quote_ts_recv_mono_ns) THEN None
    ELSE Some(Max(0, (cycle_start_mono_ns - Val(eng.quote_ts_recv_mono_ns))
                         \div MonoPerMs))

\* math.ceil(x / t) for x > 0
CeilDiv(x, t) == (x + t - 1) \div t

\* spread_ticks of _run_cycle_once
SpreadTicks(eng) ==
    IF /\ ~IsNone(eng.quote_bid)
       /\ ~IsNone(eng.quote_ask)
       /\ Val(eng.quote_ask) > Val(eng.quote_bid)
    THEN Some(CeilDiv(Val(eng.quote_ask) - Val(eng.quote_bid),
                      InstrumentDTO.tick_size))
    ELSE None

\* feed_reasons of _run_cycle_once
FeedReasons(eng) ==
    AppendIf(eng.md_mode # "REALTIME",
             AppendIf(~eng.feed_connected, <<>>, REASON_FEED_DISCONNECTED),
             REASON_MD_NOT_REALTIME)

\* int((now - cycle_start) / 1_000_000)
ElapsedMs(now_mono_ns, cycle_start_mono_ns) ==
    (now_mono_ns - cycle_start_mono_ns) \div MonoPerMs

\* GateInputs(...) as _run_cycle_once fills it
MakeGateInputs(eng, in_operating, is_break, cycle_start_mono_ns, engine_degraded) ==
    [ arm |-> eng.arm,
      intent |-> eng.intent,
      in_operating_window |-> in_operating,
      is_break_window |-> is_break,
      feed_connected |-> eng.feed_connected,
      md_mode |-> eng.md_mode,
      con_id |-> InstrumentDTO.con_id,
      bid |-> eng.quote_bid,
      ask |-> eng.quote_ask,
      last |-> eng.quote_last,
      quote_staleness_ms |-> QuoteStalenessMs(eng, cycle_start_mono_ns),
      last_quote_event_mono_ns |-> eng.last_quote_event_mono_ns,
      ts_mono_ns |-> cycle_start_mono_ns,
      spread_ticks |-> SpreadTicks(eng),
      engine_degraded |-> engine_degraded,
      stale_threshold_ms |-> STALE_THRESHOLD_MS,
      feed_heartbeat_timeout_ms |-> FEED_HEARTBEAT_TIMEOUT_MS,
      max_spread_ticks |-> MAX_SPREAD_TICKS ]

\* SnapshotDTO(...) as _run_cycle_once fills it
MakeSnapshot(eng, l, sess, g, inputs, cycle_elapsed_ms) ==
    [ schema_version |-> "snapshot.v1",
      run_id |-> eng.run_id,
      run_start_ts_unix_ms |-> eng.run_start_ts_unix_ms,
      snapshot_id |-> eng.snapshot_id,
      cycle_count |-> eng.snapshot_id,
      ts_unix_ms |-> l.cycle_start_unix_ms,
      ts_mono_ns |-> l.cycle_start_mono_ns,
      instrument |-> InstrumentDTO,
      feed |-> [ connected |-> eng.feed_connected,
                 md_mode |-> eng.md_mode,
                 degraded |-> (~eng.feed_connected) \/ eng.md_mode # "REALTIME",
                 status_reason_codes |->
                     IF FeedReasons(eng) # <<>> THEN FeedReasons(eng)
                     ELSE eng.feed_status_reason_codes,
                 last_status_change_mono_ns |->
                     eng.feed_last_status_change_mono_ns ],
      quote |-> [ bid |-> eng.quote_bid,
                  ask |-> eng.quote_ask,
                  last |-> eng.quote_last,
                  bid_size |-> eng.quote_bid_size,
                  ask_size |-> eng.quote_ask_size,
                  ts_recv_unix_ms |-> eng.quote_ts_recv_unix_ms,
                  ts_recv_mono_ns |-> eng.quote_ts_recv_mono_ns,
                  ts_exch_unix_ms |-> eng.quote_ts_exch_unix_ms,
                  staleness_ms |-> inputs.quote_staleness_ms,
                  spread_ticks |-> inputs.spread_ticks ],
      session |-> sess,
      controls |-> [ intent |-> eng.intent,
                     arm |-> eng.arm,
                     last_cmd_id |-> eng.last_cmd_id,
                     last_cmd_ts_unix_ms |-> eng.last_cmd_ts_unix_ms ],
      loop |-> [ cycle_ms |-> cycle_elapsed_ms,
                 cycle_overrun |-> cycle_elapsed_ms > CYCLE_TARGET_MS,
                 engine_degraded |-> inputs.engine_degraded,
                 last_cycle_start_mono_ns |-> l.cycle_start_mono_ns ],
      gates |-> [ allowed |-> g.allowed,
                  reason_codes |-> g.reason_codes,
                  gate_metrics |-> g.gate_metrics ],
      last_any_event_mono_ns |-> eng.last_any_event_mono_ns,
      last_quote_event_mono_ns |-> eng.last_quote_event_mono_ns,
      quotes_received_count |-> eng.quotes_received_count,
      ready |-> g.allowed,
      ready_reasons |-> g.reason_codes ]

-----------------------------------------------------------------------------
(* datahub.py : DataHub *)

\* DataHub.__init__: nobody holds _lock; no call is in progress
InitDataHub ==
    [ lock |-> None,
      pub  |-> [ pc |-> "idle", arg |-> None ],
      rd   |-> [ r \in Readers |-> [ pc |-> "idle", ret |-> None ] ] ]

\* holder of _lock while publish runs (the readers hold it under their own id)
Publisher == 0

\* PublishAssign that copies the new Snapshot into the published one field by
\* field and stops after the first field
PublishAssign_FieldWise(old, snapshot) ==
    IF IsNone(old) THEN Some(snapshot)
    ELSE Some([ Val(old) EXCEPT !.snapshot_id = snapshot.snapshot_id ])

\* "self._snapshot = snapshot": the handle is replaced
PublishAssign(old, snapshot) == Some(snapshot)

-----------------------------------------------------------------------------
(* JSON text, as the logger writes it and the validator reads it.  A text   *)
(* is a sequence of tokens: "{", "}", one token per "key":value pair, a     *)
(* bare scalar, a blank, a newline.                                         *)

Open == [ t |-> "{" ]

Close == [ t |-> "}" ]

Newline == [ t |-> "\n" ]

Blank == [ t |-> " " ]

Pair(k, v) == [ t |-> "pair", k |-> k, v |-> v ]

Scalar(v) == [ t |-> "scalar", v |-> v ]

\* json.dumps with indent: a newline after the opening brace
json_dumps_Indented(items) ==
    <<Open, Newline>> \o [ i \in 1..Len(items) |-> Pair(items[i][1], items[i][2]) ]
        \o <<Close>>

\* json.dumps(d, separators=(',', ':')) of a dict given as its items in order
json_dumps(items) ==
    <<Open>> \o [ i \in 1..Len(items) |-> Pair(items[i][1], items[i][2]) ]
        \o <<Close>>

IsSpace(c) == c.t \in { "\n", " " }

RECURSIVE lstrip(_)
lstrip(text) ==
    IF text # <<>> /\ IsSpace(Head(text)) THEN lstrip(Tail(text)) ELSE text

RECURSIVE rstrip(_)
rstrip(text) ==
    IF text # <<>> /\ IsSpace(text[Len(text)])
    THEN rstrip(SubSeq(text, 1, Len(text) - 1)) ELSE text

\* str.strip
strip(text) == lstrip(rstrip(text))

RECURSIVE SplitLines(_, _, _)
SplitLines(text, line, lines) ==
    IF text = <<>>
    THEN IF line = <<>> THEN lines ELSE Append(lines, line)
    ELSE IF Head(text).t = "\n"
         THEN SplitLines(Tail(text), <<>>, Append(lines, Append(line, Head(text))))
         ELSE SplitLines(Tail(text), Append(line, Head(text)), lines)

\* file.readlines: the text cut after every newline, an unterminated rest last
readlines(text) == SplitLines(text, <<>>, <<>>)

IsObjectText(text) ==
    /\ Len(text) >= 2
    /\ text[1].t = "{"
    /\ text[Len(text)].t = "}"
    /\ \A i \in 2..(Len(text) - 1) : text[i].t = "pair"

IsScalarText(text) == Len(text) = 1 /\ text[1].t = "scalar"

\* json.loads: a dict, a scalar, or None where it raises JSONDecodeError
json_loads(text) ==
    IF IsObjectText(text)
    THEN Some([ type |-> "dict", items |-> SubSeq(text, 2, Len(text) - 1) ])
    ELSE IF IsScalarText(text)
    THEN Some([ type |-> "scalar", items |-> <<>> ])
    ELSE None

\* key in d, and d[key], for a decoded dict
HasKey(d, key) == \E i \in 1..Len(d.items) : d.items[i].k = key

GetKey(d, key) ==
    d.items[CHOOSE i \in 1..Len(d.items) : d.items[i].k = key].v

-----------------------------------------------------------------------------
(* triggercard_logger.py : TriggerCard, TriggerCardLogger and its log files *)

TRIGGERCARD_SCHEMA == "triggercard.v1"

\* the run_id main() constructs the logger with: "run-" and the epoch second
LOGGER_RUN_ID == "run-epoch-s"

\* cadence_interval_ns for the default cadence_hz of 1.0: one second
CADENCE_INTERVAL_NS == 1000 * MonoPerMs

\* TriggerCard(...) of tick that always leaves the reasons empty
TriggerCard_NoReasons(run_id, snapshot) ==
    [ schema_version |-> TRIGGERCARD_SCHEMA,
      run_id |-> run_id,
      ts_unix_ms |-> snapshot.ts_unix_ms,
      snapshot_id |-> snapshot.snapshot_id,
      ready |-> snapshot.ready,
      ready_reasons |-> <<>> ]

\* TriggerCard(...) as tick builds it from the snapshot
TriggerCard(run_id, snapshot) ==
    [ schema_version |-> TRIGGERCARD_SCHEMA,
      run_id |-> run_id,
      ts_unix_ms |-> snapshot.ts_unix_ms,
      snapshot_id |-> snapshot.snapshot_id,
      ready |-> snapshot.ready,
      ready_reasons |-> snapshot.ready_reasons ]

\* TriggerCard.to_dict: the items in insertion order
to_dict(card) ==
    << <<"schema_version", card.schema_version>>,
       <<"run_id", card.run_id>>,
       <<"ts_unix_ms", card.ts_unix_ms>>,
       <<"snapshot_id", card.snapshot_id>>,
       <<"ready", card.ready>>,
       <<"ready_reasons", card.ready_reasons>> >>

\* _should_emit with a strict comparison
_should_emit_Strict(last_emit_mono_ns, cadence_interval_ns, now_mono_ns) ==
    \/ IsNone(last_emit_mono_ns)
    \/ now_mono_ns - Val(last_emit_mono_ns) > cadence_interval_ns

_should_emit(last_emit_mono_ns, cadence_interval_ns, now_mono_ns) ==
    \/ IsNone(last_emit_mono_ns)
    \/ now_mono_ns - Val(last_emit_mono_ns) >= cadence_interval_ns

\* _get_local_date: the local date of the clock
_get_local_date == DateOf(local_h)

\* _get_filepath: triggercards_{local_date}_{run_id}.jsonl in log_dir
_get_filepath(local_date, run_id) ==
    [ name |-> "triggercards", date |-> local_date, run_id |-> run_id,
      ext |-> "jsonl" ]

\* the rotation test of _check_rotation that only fires for the first file
NeedsRotation_FirstOnly(local_date, current_date) == IsNone(current_date)

\* the rotation test of _check_rotation: local_date != self._current_date
NeedsRotation(local_date, current_date) == current_date # Some(local_date)

InitLogger ==
    [ run_id |-> LOGGER_RUN_ID,
      cadence_interval_ns |-> CADENCE_INTERVAL_NS,
      last_emit_mono_ns |-> None,
      current_file |-> None,
      current_date |-> None,
      \* the tick() call in progress: position, arguments, local_date
      pc |-> "idle", now_mono_ns |-> 0, snapshot |-> None,
      local_date |-> None ]

\* an exception leaves tick: the call is over, the caller gets the exception
TickRaises(l) == [ l EXCEPT !.pc = "idle" ]

\* the latest tick() call of the record, marked with the exception it raised
Raising(h, exc) ==
    [ h EXCEPT !.last_tick = Some([ Val(@) EXCEPT !.raised = Some(exc) ]) ]

\* files: path -> text on disk;  handles: open path -> text written to the
\* handle and still in its buffer
InitDisk == [ files |-> <<>>, handles |-> <<>> ]

\* f with key k set to v, and f without key k
Put(f, k, v) == [ x \in (DOMAIN f) \cup {k} |-> IF x = k THEN v ELSE f[x] ]

Drop(f, k) == [ x \in (DOMAIN f) \ {k} |-> f[x] ]

\* open(path, "a"): the file is created when missing; a handle on it
OpenAppend(d, path) ==
    [ files |-> IF path \in DOMAIN d.files THEN d.files
                ELSE Put(d.files, path, <<>>),
      handles |-> Put(d.handles, path, <<>>) ]

\* file.write(text): into the handle's buffer
WriteHandle(d, path, text) ==
    [ d EXCEPT !.handles = Put(@, path, d.handles[path] \o text) ]

\* the first n tokens of the handle's buffer reach the file
WriteThrough(d, path, n) ==
    [ files |-> Put(d.files, path,
                    d.files[path] \o SubSeq(d.handles[path], 1, n)),
      handles |-> Put(d.handles, path,
                      SubSeq(d.handles[path], n + 1, Len(d.handles[path]))) ]

\* file.flush(): the whole buffer reaches the file
FlushHandle(d, path) == WriteThrough(d, path, Len(d.handles[path]))

\* file.close(): flush, then the handle is gone
CloseHandle(d, path) ==
    LET f == FlushHandle(d, path)
    IN  [ f EXCEPT !.handles = Drop(@, path) ]

-----------------------------------------------------------------------------
(* triggercard_validator.py : validate_triggercard_file *)

REQUIRED_FIELDS ==
    <<"run_id", "ts_unix_ms", "snapshot_id", "ready", "ready_reasons">>

\* ValidationResult(...)
ValidationResult(valid_count, has_truncated_line, errors) ==
    [ valid_count |-> valid_count,
      has_truncated_line |-> has_truncated_line,
      errors |-> errors,
      success |-> Len(errors) = 0 ]

\* what a call gives: the exception it raised, or the result it returned
Raised(exc) == [ raised |-> Some(exc), result |-> None ]

Returned(result) == [ raised |-> None, result |-> Some(result) ]

\* the test for a tolerated decode failure that accepts one on any line
TruncatedOk_AnyLine(i, n) == TRUE

\* the test for a tolerated decode failure: i == len(lines)
TruncatedOk(i, n) == i = n

\* the body of the try for a decoded line: the error it appends, if any
CardError(card) ==
    IF ~HasKey(card, "schema_version")
    THEN Some("Missing schema_version")
    ELSE IF GetKey(card, "schema_version") # TRIGGERCARD_SCHEMA
    THEN Some("Invalid schema_version")
    ELSE IF \E j \in 1..Len(REQUIRED_FIELDS) : ~HasKey(card, REQUIRED_FIELDS[j])
    THEN Some("Missing required fields")
    ELSE None

RECURSIVE ValidateLines(_, _, _, _, _)
\* the for-loop over lines, from line i on.  A line that decodes to a number
\* makes '"schema_version" not in card' raise TypeError, which nothing catches
ValidateLines(lines, i, valid_count, has_truncated_line, errors) ==
    IF i > Len(lines)
    THEN Returned(ValidationResult(valid_count, has_truncated_line, errors))
    ELSE LET line == strip(lines[i])
             card == json_loads(line)
         IN  IF line = <<>>
             THEN ValidateLines(lines, i + 1, valid_count, has_truncated_line,
                                errors)
             ELSE IF IsNone(card)
             THEN IF TruncatedOk(i, Len(lines))
                  THEN ValidateLines(lines, i + 1, valid_count, TRUE, errors)
                  ELSE ValidateLines(lines, i + 1, valid_count,
                                     has_truncated_line,
                                     Append(errors, <<i, "JSON decode error">>))
             ELSE IF Val(card).type # "dict"
             THEN Raised("TypeError")
             ELSE IF ~IsNone(CardError(Val(card)))
             THEN ValidateLines(lines, i + 1, valid_count, has_truncated_line,
                                Append(errors, <<i, Val(CardError(Val(card)))>>))
             ELSE ValidateLines(lines, i + 1, valid_count + 1,
                                has_truncated_line, errors)

\* validate_triggercard_file(filepath); file is None where no file exists
validate_triggercard_file(file) ==
    IF IsNone(file)
    THEN Returned(ValidationResult(0, FALSE, << <<0, "File not found">> >>))
    ELSE ValidateLines(readlines(Val(file)), 1, 0, FALSE, <<>>)

-----------------------------------------------------------------------------
(* ibkr_adapter.py, adapter_runner.py : IBKRAdapter and its runner thread *)

\* the broker's error code for a client id already in use
ERROR_CLIENT_ID_IN_USE == 326

\* AdapterRunner: _running and the thread of _run_loop;  IBKRAdapter._md_mode
InitAdapter ==
    [ running |-> FALSE, thread |-> "unstarted",
      connected |-> FALSE, md_mode |-> "NONE" ]

\* IBKRAdapter._update_md_mode_from_ticker: the mode a ticker puts the adapter in
TickerMode(ticker, connected) ==
    IF ticker.halted THEN "FROZEN"
    ELSE IF ticker.delayed THEN "DELAYED"
    ELSE IF connected THEN "REALTIME"
    ELSE "NONE"

\* the threads that run ib_insync's event loop and so deliver its callbacks:
\* the main thread (connect, qualify_contract, subscribe_market_data in
\* main()) and the AdapterRunner thread (run_event_loop_iteration)
DeliveryThreads == { "main", "runner" }

\* sys.exit(1) raises SystemExit; nothing between the callback and the top
\* of the thread catches it (the handlers on the way catch Exception).  At
\* the top of the main thread it ends the process with its code; at the top
\* of any other thread it ends that thread, silently
SysExit(p, thread, code) ==
    IF thread = "main" THEN [ p EXCEPT !.exit = Some(code) ] ELSE p

-----------------------------------------------------------------------------
(* The process *)

\* exit: the exit code once the process has ended;  killed: stopped from
\* outside (power loss, SIGKILL), nothing of the program runs any more
\* at: where the main thread is;  caller: who called MinimalCLI.run;
\* duration: main()'s duration, in ms;  ui_running, start_time_mono:
\* MinimalCLI._running and run()'s start time;  returned: the elapsed time
\* at which run() returned
InitProcess ==
    [ exit |-> None, killed |-> FALSE,
      at |-> "init", caller |-> None, duration |-> None,
      ui_running |-> FALSE, start_time_mono |-> 0, returned |-> None ]

ProcessRuns == IsNone(proc.exit) /\ ~proc.killed

-----------------------------------------------------------------------------
(* Inputs the environment offers *)

\* quotes the adapter pushes: the contract id alone, and a quote 1.2 ticks wide
QuotePayloads ==
    { [ con_id |-> 12345, bid |-> None, ask |-> None, last |-> None,
        bid_size |-> None, ask_size |-> None, ts_exch_unix_ms |-> None ],
      [ con_id |-> 12345, bid |-> Some(1850000), ask |-> Some(1850030),
        last |-> Some(1850000), bid_size |-> Some(5), ask_size |-> Some(7),
        ts_exch_unix_ms |-> Some(WALL_EPOCH_MS) ] }

StatusPayloads ==
    { [ connected |-> TRUE, md_mode |-> "REALTIME", reason |-> None,
        error_code |-> None ],
      [ connected |-> FALSE, md_mode |-> "NONE", reason |-> Some("disconnected"),
        error_code |-> Some(1100) ] }

ErrorPayloads ==
    { [ error_code |-> 2104, error_msg |-> "farm ok" ] }

\* how far the clock moves in one advance: below a millisecond, past the
\* overrun threshold
ClockSteps == { 1, 501 * MonoPerMs }

\* local time at process start (day 0, 15:00) and how many hours it may move
LocalStartHour == 15

-----------------------------------------------------------------------------
(* Initial state *)

EmptyLocals ==
    [ cycle_start_mono_ns |-> 0, cycle_start_unix_ms |-> 0,
      commands |-> <<>>, events |-> <<>>, batch |-> None,
      flat_at_start |-> FALSE ]

InitHist ==
    [ inputs |-> 0,
      cycles |-> 0, published |-> <<>>, last_cycle |-> None,
      since_drain |-> <<>>, last_pushes |-> <<>>,
      \* QuoteEvents drained so far that carried a price, and the contract
      \* id of the last drained QuoteEvent that carried one
      priced |-> 0, con_id |-> None,
      \* Snapshots handed to TriggerCardLogger.tick, in call order
      ticks |-> <<>>,
      \* Snapshots passed to DataHub.publish, how many of those calls have
      \* returned, and how many had returned when each reader last read
      hub_calls |-> <<>>, hub_done |-> 0,
      read_at |-> [ r \in Readers |-> None ],
      \* per queue: the items pushed while there was room and the items that
      \* get_nowait has handed out; and the last push, with what it raised
      accepted |-> [ cmd |-> <<>>, evt |-> <<>> ],
      delivered |-> [ cmd |-> <<>>, evt |-> <<>> ],
      last_push |-> None,
      \* the lists that drain() calls have returned, in the order they
      \* returned, each with its queue and the thread that drained
      batches |-> <<>>,
      \* the delivery of error 326: the thread and whether a StatusEvent
      \* with the code went into the InboundQueue
      fatal |-> None,
      \* the latest whole _drain_inbound_events: the engine before it and the
      \* events it drained
      evt_drain |-> None,
      \* tick() calls made; the latest call: its arguments, the now_mono_ns
      \* of the card written last before it, whether it wrote a card; and
      \* the cards written: the tick's arguments, the local date at the
      \* call, the file and the line the card went to
      tick_calls |-> 0, last_tick |-> None, written |-> <<>>,
      \* I/O errors met so far, and close() calls made on the logger
      faults |-> 0, closes |-> 0,
      \* the latest session read: the local hour and session_date_iso then
      session |-> None ]

IdleDrain == [ pc |-> "idle", commands |-> <<>>, result |-> None ]

\* any GateInputs record; only evaluate_hard_gates reads it
NoGateInputs == MakeGateInputs(InitEngine, FALSE, FALSE, 0, FALSE)

\* everything but the local clock
InitObjects ==
    /\ engine = InitEngine
    /\ pc = [ t \in Threads |-> "unstarted" ]
    /\ loc = [ t \in Threads |-> EmptyLocals ]
    /\ ctl = "idle"
    /\ cmdq = <<>>
    /\ inq = <<>>
    /\ hub = None
    /\ mono = 0
    /\ ui = 0
    /\ seen = [ r \in Readers |-> [ snap |-> None, prev |-> None,
                                    after_cycle |-> FALSE ] ]
    /\ drn = IdleDrain
    /\ dh = InitDataHub
    /\ tcl = InitLogger
    /\ disk = InitDisk
    /\ adp = InitAdapter
    /\ proc = InitProcess
    /\ hist = InitHist

InitProgram ==
    /\ InitObjects
    /\ local_h = LocalStartHour

\* validate_triggercard_file has not been handed a file
NoValidation == vfile = None /\ vres = None

Init ==
    /\ InitProgram
    /\ gin = NoGateInputs
    /\ gout = None
    /\ NoValidation

-----------------------------------------------------------------------------
(* UI: MinimalCLI.send_intent_command / send_arm_command *)

\* what put_nowait raises: queue.Full on a full queue, nothing otherwise
PutRaises(q, maxsize) == IF CanPut(q, maxsize) THEN None ELSE Some("queue.Full")

\* PushCommand that makes room on a full queue by dropping the oldest command
PushCommand_DropOldest(q, cmd) ==
    IF CanPut(q, CmdQueueMax) THEN Append(q, cmd) ELSE Append(Tail(q), cmd)

\* CommandQueue.push: put_nowait, queue.Full propagates to the caller
PushCommand(q, cmd) == IF CanPut(q, CmdQueueMax) THEN Append(q, cmd) ELSE q

send_intent_command(intent) ==
    /\ hist.inputs < MaxInputs
    /\ ui' = ui + 1
    /\ cmdq' = PushCommand(cmdq, IntentCommand(ui + 1, now_unix_ms, intent))
    /\ hist' = [ hist EXCEPT !.inputs = @ + 1 ]
    /\ UNCHANGED <<engine, pc, loc, ctl, inq, hub, mono, local_h, seen, gin,
                   gout, drn, dh, tcl, disk, vfile, vres, adp, proc>>

send_arm_command(arm) ==
    /\ hist.inputs < MaxInputs
    /\ ui' = ui + 1
    /\ cmdq' = PushCommand(cmdq, ArmCommand(ui + 1, now_unix_ms, arm))
    /\ hist' = [ hist EXCEPT !.inputs = @ + 1 ]
    /\ UNCHANGED <<engine, pc, loc, ctl, inq, hub, mono, local_h, seen, gin,
                   gout, drn, dh, tcl, disk, vfile, vres, adp, proc>>

(* Adapter: builds an event stamped with the clock and pushes it *)

\* InboundQueue.push: put_nowait, queue.Full re-raised and logged by the adapter
PushEvent(q, event) == IF CanPut(q, InQueueMax) THEN Append(q, event) ELSE q

AdapterPush(event) ==
    /\ hist.inputs < MaxInputs
    /\ inq' = PushEvent(inq, event)
    /\ hist' = [ hist EXCEPT !.inputs = @ + 1 ]
    /\ UNCHANGED <<engine, pc, loc, ctl, cmdq, hub, mono, local_h, ui, seen,
                   gin, gout, drn, dh, tcl, disk, vfile, vres, adp, proc>>

AdapterPushQuote ==
    \E p \in QuotePayloads : AdapterPush(QuoteEvent(mono, now_unix_ms, p))

AdapterPushStatus ==
    \E p \in StatusPayloads : AdapterPush(StatusEvent(mono, now_unix_ms, p))

AdapterPushError ==
    \E p \in ErrorPayloads : AdapterPush(AdapterErrorEvent(mono, now_unix_ms, p))

(* Clock *)

ClockAdvance ==
    /\ hist.inputs < MaxInputs
    /\ \E d \in ClockSteps : mono' = mono + d
    /\ hist' = [ hist EXCEPT !.inputs = @ + 1 ]
    /\ UNCHANGED <<engine, pc, loc, ctl, cmdq, inq, hub, local_h, ui, seen,
                   gin, gout, drn, dh, tcl, disk, vfile, vres, adp, proc>>

LocalHourAdvance ==
    /\ hist.inputs < MaxInputs
    /\ local_h' = local_h + 1
    /\ hist' = [ hist EXCEPT !.inputs = @ + 1 ]
    /\ UNCHANGED <<engine, pc, loc, ctl, cmdq, inq, hub, mono, ui, seen, gin,
                   gout, drn, dh, tcl, disk, vfile, vres, adp, proc>>

(* DataHub *)

\* DataHub.get_latest by reader r: the handle, read under the lock
get_latest(r) ==
    /\ seen' = [ seen EXCEPT ![r] = [ snap |-> hub, prev |-> @.snap,
                                      after_cycle |-> hist.cycles > 0 ] ]
    /\ UNCHANGED <<engine, pc, loc, ctl, cmdq, inq, hub, mono, local_h, ui,
                   gin, gout, drn, hist, dh, tcl, disk, vfile, vres, adp,
                   proc>>

-----------------------------------------------------------------------------
(* EngineLoop.start / stop, called one after the other by the main thread *)

Alive(t) == pc[t] \in {"while", "drain_cmd", "drain_evt"}

InCycle(t) == pc[t] \in {"drain_cmd", "drain_evt"}

Unstarted == { t \in Threads : pc[t] = "unstarted" }

\* start(): returns at once when _running, else sets it and starts a thread
start ==
    /\ ctl = "idle"
    /\ IF engine.running
       THEN UNCHANGED <<engine, pc>>
       ELSE /\ Unstarted # {}
            /\ LET t == CHOOSE u \in Unstarted : \A v \in Unstarted : u <= v
               IN  /\ engine' = [ engine EXCEPT !.running = TRUE,
                                                !.thread = Some(t) ]
                   /\ pc' = [ pc EXCEPT ![t] = "while" ]
    /\ UNCHANGED <<loc, ctl, cmdq, inq, hub, mono, local_h, ui, seen, gin,
                   gout, drn, hist, dh, tcl, disk, vfile, vres, adp, proc>>

\* stop(): clears _running, then joins the thread if there is one
stop ==
    /\ ctl = "idle"
    /\ engine' = [ engine EXCEPT !.running = FALSE ]
    /\ ctl' = IF IsNone(engine.thread) THEN "idle" ELSE "joining"
    /\ UNCHANGED <<pc, loc, cmdq, inq, hub, mono, local_h, ui, seen, gin,
                   gout, drn, hist, dh, tcl, disk, vfile, vres, adp, proc>>

\* join(timeout=2.0) returns because the thread has ended
JoinEnded ==
    /\ ctl = "joining"
    /\ ~Alive(Val(engine.thread))
    /\ engine' = [ engine EXCEPT !.thread = None ]
    /\ ctl' = "idle"
    /\ UNCHANGED <<pc, loc, cmdq, inq, hub, mono, local_h, ui, seen, gin,
                   gout, drn, hist, dh, tcl, disk, vfile, vres, adp, proc>>

\* join(timeout=2.0) returns because the two seconds are over
JoinTimeout ==
    /\ ctl = "joining"
    /\ Alive(Val(engine.thread))
    /\ engine' = [ engine EXCEPT !.thread = None ]
    /\ ctl' = "idle"
    /\ UNCHANGED <<pc, loc, cmdq, inq, hub, mono, local_h, ui, seen, gin,
                   gout, drn, hist, dh, tcl, disk, vfile, vres, adp, proc>>

-----------------------------------------------------------------------------
(* EngineLoop._run_loop and _run_cycle_once, run by engine thread t *)

\* positions of the commands of one kind in a command sequence
KindIdx(q, kind) == { i \in 1..Len(q) : q[i].type = kind }

\* the last command of a kind in a command sequence (there is one)
LastOfKind(q, kind) ==
    q[CHOOSE i \in KindIdx(q, kind) : \A j \in KindIdx(q, kind) : j <= i]

\* intent of the last IntentCommand of a command sequence, None without one
LastIntentOf(q) ==
    IF KindIdx(q, "intent") = {} THEN None
    ELSE Some(LastOfKind(q, "intent").intent)

\* arm of the last ArmCommand of a command sequence, None without one
LastArmOf(q) ==
    IF KindIdx(q, "arm") = {} THEN None
    ELSE Some(LastOfKind(q, "arm").arm)

\* a QuoteEvent that carries at least one of bid, ask, last
IsPricedQuote(e) ==
    /\ e.type = "quote"
    /\ ~(IsNone(e.bid) /\ IsNone(e.ask) /\ IsNone(e.last))

RECURSIVE CountPriced(_)
\* how many events of a drained list are priced QuoteEvents
CountPriced(events) ==
    IF events = <<>> THEN 0
    ELSE (IF IsPricedQuote(Head(events)) THEN 1 ELSE 0) + CountPriced(Tail(events))

RECURSIVE LastConId(_, _)
\* contract id of the last QuoteEvent of a drained list, prior without one
LastConId(prior, events) ==
    IF events = <<>> THEN prior
    ELSE LastConId(IF Head(events).type = "quote"
                   THEN Some(Head(events).con_id) ELSE prior,
                   Tail(events))

\* "while self._running:" and the head of the cycle: both clock reads and
\* the snapshot id increment
LoopIter(t) ==
    /\ pc[t] = "while"
    /\ IF engine.running
       THEN /\ pc' = [ pc EXCEPT ![t] = "drain_cmd" ]
            /\ loc' = [ loc EXCEPT ![t] =
                          [ cycle_start_mono_ns |-> mono,
                            cycle_start_unix_ms |-> now_unix_ms,
                            commands |-> <<>>, events |-> <<>>,
                            batch |-> None,
                            flat_at_start |-> LastIntentOf(cmdq) = Some("FLAT") ] ]
            /\ engine' = [ engine EXCEPT !.snapshot_id = @ + 1 ]
       ELSE /\ pc' = [ pc EXCEPT ![t] = "exited" ]
            /\ UNCHANGED <<loc, engine>>
    /\ UNCHANGED <<ctl, cmdq, inq, hub, mono, local_h, ui, seen, gin, gout,
                   drn, hist, dh, tcl, disk, vfile, vres, adp, proc>>

\* CommandQueue.drain: one get_nowait that returns a command
DrainCommandsGet(t) ==
    /\ pc[t] = "drain_cmd"
    /\ cmdq # <<>>
    /\ loc' = [ loc EXCEPT ![t].commands = Append(@, Head(cmdq)) ]
    /\ cmdq' = Tail(cmdq)
    /\ UNCHANGED <<engine, pc, ctl, inq, hub, mono, local_h, ui, seen, gin,
                   gout, drn, hist, dh, tcl, disk, vfile, vres, adp, proc>>

\* CommandQueue.drain: get_nowait raises queue.Empty, the batch is coalesced
\* and returned, and _drain_commands applies it
DrainCommandsDone(t) ==
    /\ pc[t] = "drain_cmd"
    /\ cmdq = <<>>
    /\ LET batch == Coalesce(loc[t].commands)
       IN  /\ engine' = ApplyBatch(engine, batch)
           /\ loc' = [ loc EXCEPT ![t].batch = Some(batch) ]
    /\ pc' = [ pc EXCEPT ![t] = "drain_evt" ]
    /\ UNCHANGED <<ctl, cmdq, inq, hub, mono, local_h, ui, seen, gin, gout,
                   drn, hist, dh, tcl, disk, vfile, vres, adp, proc>>

\* InboundQueue.drain(): one get_nowait that returns an event
DrainEventsGet(t) ==
    /\ pc[t] = "drain_evt"
    /\ inq # <<>>
    /\ loc' = [ loc EXCEPT ![t].events = Append(@, Head(inq)) ]
    /\ inq' = Tail(inq)
    /\ UNCHANGED <<engine, pc, ctl, cmdq, hub, mono, local_h, ui, seen, gin,
                   gout, drn, hist, dh, tcl, disk, vfile, vres, adp, proc>>

\* InboundQueue.drain(): get_nowait raises queue.Empty and the list is
\* returned; _drain_inbound_events applies the events in order; then the rest
\* of _run_cycle_once: session, staleness, spread, feed, gates, the snapshot
\* and its publication.  The session functions read the local clock one after
\* the other (d1, d2: hours that pass between the reads).  When a DTO
\* constructor raises, the exception leaves _run_cycle_once and _run_loop
\* (neither catches it) and the thread ends with nothing published.  Nothing
\* in the cycle calls a TriggerCardLogger: EngineLoop holds none.
FinishCycle(t) ==
    /\ pc[t] = "drain_evt"
    /\ inq = <<>>
    /\ \E d1 \in {0, 1}, d2 \in {0, 1} :
         /\ d1 + d2 <= MaxInputs - hist.inputs
         /\ LET l == loc[t]
                eng == ApplyEvents(engine, l.events)
                h_date == local_h
                h_oper == local_h + d1
                h_break == local_h + d1 + d2
                sess == [ in_operating_window |-> in_operating_window(h_oper),
                          is_break_window |-> is_break_window(h_break),
                          session_date_iso |-> session_date_iso(h_date),
                          session_phase |-> session_phase(h_break) ]
                pre_gate_elapsed_ms == ElapsedMs(mono, l.cycle_start_mono_ns)
                engine_degraded == pre_gate_elapsed_ms > OVERRUN_THRESHOLD_MS
                inputs == MakeGateInputs(eng, sess.in_operating_window,
                                         sess.is_break_window,
                                         l.cycle_start_mono_ns, engine_degraded)
                g == evaluate_hard_gates(inputs)
                cycle_elapsed_ms == ElapsedMs(mono, l.cycle_start_mono_ns)
                snapshot == MakeSnapshot(eng, l, sess, g, inputs,
                                         cycle_elapsed_ms)
                done == [ snapshot_id |-> eng.snapshot_id,
                          flat |-> /\ l.flat_at_start
                                   /\ Val(l.batch).intent = Some("FLAT"),
                          no_commands |-> l.commands = <<>>,
                          built |-> snapshot ]
            IN  /\ engine' = eng
                /\ local_h' = h_break
                /\ loc' = [ loc EXCEPT ![t] = EmptyLocals ]
                /\ IF ConstructsSessionDTO
                   THEN /\ hub' = Some(snapshot)
                        /\ pc' = [ pc EXCEPT ![t] = "while" ]
                        /\ hist' = [ hist EXCEPT
                                       !.inputs = @ + d1 + d2,
                                       !.cycles = @ + 1,
                                       !.last_cycle = Some(done),
                                       !.priced = @ + CountPriced(l.events),
                                       !.con_id = LastConId(@, l.events),
                                       !.published = Append(@, snapshot) ]
                   ELSE /\ hub' = hub
                        /\ pc' = [ pc EXCEPT ![t] = "dead" ]
                        /\ hist' = [ hist EXCEPT
                                       !.inputs = @ + d1 + d2,
                                       !.cycles = @ + 1,
                                       !.last_cycle = Some(done),
                                       !.priced = @ + CountPriced(l.events),
                                       !.con_id = LastConId(@, l.events) ]
    /\ UNCHANGED <<ctl, cmdq, inq, mono, ui, seen, gin, gout, drn, dh, tcl,
                   disk, vfile, vres, adp, proc>>

-----------------------------------------------------------------------------
(* The program *)

Next ==
    \/ \E i \in UiIntents : send_intent_command(i)
    \/ \E a \in BOOLEAN : send_arm_command(a)
    \/ AdapterPushQuote
    \/ AdapterPushStatus
    \/ AdapterPushError
    \/ ClockAdvance
    \/ LocalHourAdvance
    \/ \E r \in Readers : get_latest(r)
    \/ start
    \/ stop
    \/ JoinEnded
    \/ JoinTimeout
    \/ \E t \in Threads : LoopIter(t)
    \/ \E t \in Threads : DrainCommandsGet(t)
    \/ \E t \in Threads : DrainCommandsDone(t)
    \/ \E t \in Threads : DrainEventsGet(t)
    \/ \E t \in Threads : FinishCycle(t)

Spec == Init /\ [][Next]_vars

-----------------------------------------------------------------------------
(* evaluate_hard_gates on its own: every GateInputs record of a bounded set *)

\* ts_mono_ns of the records: late enough for an age past the heartbeat timeout
GateNowMs == 10002

GateInputSet ==
    [ arm : BOOLEAN,
      intent : {"LONG", "FLAT"},
      in_operating_window : BOOLEAN,
      is_break_window : BOOLEAN,
      feed_connected : BOOLEAN,
      md_mode : {"REALTIME", "DELAYED", "NONE"},
      con_id : {None, Some(12345)},
      bid : {None, Some(1850000)},
      ask : {None, Some(1850025)},
      last : {None, Some(1850000)},
      quote_staleness_ms : {None, Some(STALE_THRESHOLD_MS),
                            Some(STALE_THRESHOLD_MS + 1)},
      last_quote_event_mono_ns :
          {None,
           Some((GateNowMs - FEED_HEARTBEAT_TIMEOUT_MS) * MonoPerMs),
           Some((GateNowMs - FEED_HEARTBEAT_TIMEOUT_MS) * MonoPerMs - 1),
           Some((GateNowMs - FEED_HEARTBEAT_TIMEOUT_MS - 1) * MonoPerMs)},
      ts_mono_ns : {GateNowMs * MonoPerMs},
      spread_ticks : {None, Some(0), Some(MAX_SPREAD_TICKS),
                      Some(MAX_SPREAD_TICKS + 1)},
      engine_degraded : BOOLEAN,
      stale_threshold_ms : {STALE_THRESHOLD_MS},
      feed_heartbeat_timeout_ms : {FEED_HEARTBEAT_TIMEOUT_MS},
      max_spread_ticks : {MAX_SPREAD_TICKS} ]

GateInit ==
    /\ InitProgram
    /\ gin \in GateInputSet
    /\ gout = None
    /\ NoValidation

EvaluateGates ==
    /\ IsNone(gout)
    /\ gout' = Some(evaluate_hard_gates(gin))
    /\ UNCHANGED <<engine, pc, loc, ctl, cmdq, inq, hub, mono, local_h, ui,
                   seen, gin, drn, hist, dh, tcl, disk, vfile, vres, adp,
                   proc>>

GateNext == EvaluateGates

GateSpec == GateInit /\ [][GateNext]_vars

-----------------------------------------------------------------------------
(* CommandQueue on its own: producers push, the one consumer drains *)

\* pushes over a run, and the command ids they carry
MaxPushes == 3

MaxCmdId == 1

CommandSet ==
    { IntentCommand(id, WALL_EPOCH_MS + id, i) : id \in 0..MaxCmdId, i \in Intents }
    \cup { ArmCommand(id, WALL_EPOCH_MS + id, a) : id \in 0..MaxCmdId, a \in BOOLEAN }

\* CommandQueue.push(cmd); a full queue raises queue.Full and keeps its content
QueuePush(cmd) ==
    /\ hist.inputs < MaxPushes
    /\ cmdq' = PushCommand(cmdq, cmd)
    /\ hist' = [ hist EXCEPT
                   !.inputs = @ + 1,
                   !.since_drain = IF CanPut(cmdq, CmdQueueMax)
                                   THEN Append(@, cmd) ELSE @ ]
    /\ UNCHANGED <<engine, pc, loc, ctl, inq, hub, mono, local_h, ui, seen,
                   gin, gout, drn, dh, tcl, disk, vfile, vres, adp, proc>>

\* CommandQueue.drain() is entered: its locals are fresh
QueueDrainEnter ==
    /\ drn.pc = "idle"
    /\ drn' = [ pc |-> "get", commands |-> <<>>, result |-> None ]
    /\ UNCHANGED <<engine, pc, loc, ctl, cmdq, inq, hub, mono, local_h, ui,
                   seen, gin, gout, hist, dh, tcl, disk, vfile, vres, adp,
                   proc>>

\* one get_nowait that returns a command
QueueDrainGet ==
    /\ drn.pc = "get"
    /\ cmdq # <<>>
    /\ drn' = [ drn EXCEPT !.commands = Append(@, Head(cmdq)) ]
    /\ cmdq' = Tail(cmdq)
    /\ UNCHANGED <<engine, pc, loc, ctl, inq, hub, mono, local_h, ui, seen,
                   gin, gout, hist, dh, tcl, disk, vfile, vres, adp, proc>>

\* get_nowait raises queue.Empty: the commands are coalesced and returned
QueueDrainReturn ==
    /\ drn.pc = "get"
    /\ cmdq = <<>>
    /\ drn' = [ pc |-> "idle", commands |-> <<>>,
                result |-> Some(Coalesce(drn.commands)) ]
    /\ hist' = [ hist EXCEPT !.last_pushes = hist.since_drain,
                             !.since_drain = <<>> ]
    /\ UNCHANGED <<engine, pc, loc, ctl, cmdq, inq, hub, mono, local_h, ui,
                   seen, gin, gout, dh, tcl, disk, vfile, vres, adp, proc>>

QueueNext ==
    \/ \E cmd \in CommandSet : QueuePush(cmd)
    \/ QueueDrainEnter
    \/ QueueDrainGet
    \/ QueueDrainReturn

QueueSpec == Init /\ [][QueueNext]_vars

-----------------------------------------------------------------------------
(* DataHub on its own: one publisher and the readers, statement by statement *)

\* publish calls over a run
MaxPublishes == 2

\* the i-th Snapshot the publisher passes: snapshot_id and cycle_count are the
\* same counter
HubSnapshot(i) == [ snapshot_id |-> i, cycle_count |-> i ]

\* publish(snapshot) is called
HubPublishCall ==
    /\ dh.pub.pc = "idle"
    /\ Len(hist.hub_calls) < MaxPublishes
    /\ LET snapshot == HubSnapshot(Len(hist.hub_calls) + 1)
       IN  /\ dh' = [ dh EXCEPT !.pub = [ pc |-> "lock", arg |-> Some(snapshot) ] ]
           /\ hist' = [ hist EXCEPT !.hub_calls = Append(@, snapshot) ]
    /\ UNCHANGED <<engine, pc, loc, ctl, cmdq, inq, hub, mono, local_h, ui,
                   seen, gin, gout, drn, tcl, disk, vfile, vres, adp, proc>>

\* "with self._lock:" of publish, entered when the lock is free
HubPublishLock ==
    /\ dh.pub.pc = "lock"
    /\ IsNone(dh.lock)
    /\ dh' = [ dh EXCEPT !.lock = Some(Publisher), !.pub.pc = "assign" ]
    /\ UNCHANGED <<engine, pc, loc, ctl, cmdq, inq, hub, mono, local_h, ui,
                   seen, gin, gout, drn, hist, tcl, disk, vfile, vres, adp,
                   proc>>

\* "self._snapshot = snapshot"
HubPublishAssign ==
    /\ dh.pub.pc = "assign"
    /\ hub' = PublishAssign(hub, Val(dh.pub.arg))
    /\ dh' = [ dh EXCEPT !.pub.pc = "unlock" ]
    /\ UNCHANGED <<engine, pc, loc, ctl, cmdq, inq, mono, local_h, ui, seen,
                   gin, gout, drn, hist, tcl, disk, vfile, vres, adp, proc>>

\* the with-block of publish is left and publish returns
HubPublishUnlock ==
    /\ dh.pub.pc = "unlock"
    /\ dh' = [ dh EXCEPT !.lock = None, !.pub = [ pc |-> "idle", arg |-> None ] ]
    /\ hist' = [ hist EXCEPT !.hub_done = @ + 1 ]
    /\ UNCHANGED <<engine, pc, loc, ctl, cmdq, inq, hub, mono, local_h, ui,
                   seen, gin, gout, drn, tcl, disk, vfile, vres, adp, proc>>

\* get_latest() is called by reader r
HubGetCall(r) ==
    /\ dh.rd[r].pc = "idle"
    /\ dh' = [ dh EXCEPT !.rd[r] = [ pc |-> "lock", ret |-> None ] ]
    /\ UNCHANGED <<engine, pc, loc, ctl, cmdq, inq, hub, mono, local_h, ui,
                   seen, gin, gout, drn, hist, tcl, disk, vfile, vres, adp,
                   proc>>

\* "with self._lock:" of get_latest, entered when the lock is free
HubGetLock(r) ==
    /\ dh.rd[r].pc = "lock"
    /\ IsNone(dh.lock)
    /\ dh' = [ dh EXCEPT !.lock = Some(r), !.rd[r].pc = "read" ]
    /\ UNCHANGED <<engine, pc, loc, ctl, cmdq, inq, hub, mono, local_h, ui,
                   seen, gin, gout, drn, hist, tcl, disk, vfile, vres, adp,
                   proc>>

\* "return self._snapshot": the value to return is read
HubGetRead(r) ==
    /\ dh.rd[r].pc = "read"
    /\ dh' = [ dh EXCEPT !.rd[r] = [ pc |-> "unlock", ret |-> hub ] ]
    /\ hist' = [ hist EXCEPT !.read_at[r] = Some(hist.hub_done) ]
    /\ UNCHANGED <<engine, pc, loc, ctl, cmdq, inq, hub, mono, local_h, ui,
                   seen, gin, gout, drn, tcl, disk, vfile, vres, adp, proc>>

\* the with-block of get_latest is left and the value is returned to r
HubGetUnlock(r) ==
    /\ dh.rd[r].pc = "unlock"
    /\ dh' = [ dh EXCEPT !.lock = None, !.rd[r] = [ pc |-> "idle", ret |-> None ] ]
    /\ seen' = [ seen EXCEPT ![r] = [ snap |-> dh.rd[r].ret, prev |-> @.snap,
                                      after_cycle |-> FALSE ] ]
    /\ UNCHANGED <<engine, pc, loc, ctl, cmdq, inq, hub, mono, local_h, ui,
                   gin, gout, drn, hist, tcl, disk, vfile, vres, adp, proc>>

HubNext ==
    \/ HubPublishCall
    \/ HubPublishLock
    \/ HubPublishAssign
    \/ HubPublishUnlock
    \/ \E r \in Readers : HubGetCall(r)
    \/ \E r \in Readers : HubGetLock(r)
    \/ \E r \in Readers : HubGetRead(r)
    \/ \E r \in Readers : HubGetUnlock(r)

HubSpec == Init /\ [][HubNext]_vars

-----------------------------------------------------------------------------
(* The session gates on their own: one evaluation at every local hour *)

\* local hours the evaluation is tried at: three days from day 0, 00:00
MaxLocalHour == 71

SessionInit ==
    /\ InitObjects
    /\ local_h \in 0..MaxLocalHour
    /\ gin = NoGateInputs
    /\ gout = None
    /\ NoValidation

\* the session reads of _run_cycle_once, GateInputs(...) and the gates
EvaluateSession ==
    /\ IsNone(gout)
    /\ LET inputs == MakeGateInputs(engine, in_operating_window(local_h),
                                    is_break_window(local_h), mono, FALSE)
       IN  /\ gin' = inputs
           /\ gout' = Some(evaluate_hard_gates(inputs))
    /\ hist' = [ hist EXCEPT
                   !.session = Some([ at |-> local_h,
                                      session_date_iso |->
                                          session_date_iso(local_h) ]) ]
    /\ UNCHANGED <<engine, pc, loc, ctl, cmdq, inq, hub, mono, local_h, ui,
                   seen, drn, dh, tcl, disk, vfile, vres, adp, proc>>

\* the local clock reaches the next hour; the next cycle reads the session anew
SessionHourAdvance ==
    /\ ~IsNone(gout)
    /\ local_h < MaxLocalHour
    /\ local_h' = local_h + 1
    /\ gout' = None
    /\ UNCHANGED <<engine, pc, loc, ctl, cmdq, inq, hub, mono, ui, seen, gin,
                   drn, dh, hist, tcl, disk, vfile, vres, adp, proc>>

SessionNext ==
    \/ EvaluateSession
    \/ SessionHourAdvance

SessionSpec == SessionInit /\ [][SessionNext]_vars

-----------------------------------------------------------------------------
(* Both queues filled to overflow: producers push, consumers get_nowait *)

\* pushes over a run, enough to overflow both queues
MaxOverflowPushes == 6

\* CommandQueue.push of the k-th item pushed in the run
OverflowPushCommand ==
    /\ hist.inputs < MaxOverflowPushes
    /\ LET cmd == IntentCommand(hist.inputs + 1, WALL_EPOCH_MS, "LONG")
       IN  /\ cmdq' = PushCommand(cmdq, cmd)
           /\ hist' = [ hist EXCEPT
                          !.inputs = @ + 1,
                          !.accepted.cmd = IF Len(cmdq) < CmdQueueMax
                                           THEN Append(@, cmd) ELSE @,
                          !.last_push =
                              Some([ kind |-> "cmd", item |-> cmd,
                                     before |-> cmdq, after |-> cmdq',
                                     raised |-> PutRaises(cmdq, CmdQueueMax) ]) ]
    /\ UNCHANGED <<engine, pc, loc, ctl, inq, hub, mono, local_h, ui, seen,
                   gin, gout, drn, dh, tcl, disk, vfile, vres, adp, proc>>

\* InboundQueue.push of the k-th item pushed in the run
OverflowPushEvent ==
    /\ hist.inputs < MaxOverflowPushes
    /\ LET event == AdapterErrorEvent(hist.inputs + 1, WALL_EPOCH_MS,
                                      [ error_code |-> 2104,
                                        error_msg |-> "farm ok" ])
       IN  /\ inq' = PushEvent(inq, event)
           /\ hist' = [ hist EXCEPT
                          !.inputs = @ + 1,
                          !.accepted.evt = IF Len(inq) < InQueueMax
                                           THEN Append(@, event) ELSE @,
                          !.last_push =
                              Some([ kind |-> "evt", item |-> event,
                                     before |-> inq, after |-> inq',
                                     raised |-> PutRaises(inq, InQueueMax) ]) ]
    /\ UNCHANGED <<engine, pc, loc, ctl, cmdq, hub, mono, local_h, ui, seen,
                   gin, gout, drn, dh, tcl, disk, vfile, vres, adp, proc>>

\* CommandQueue.drain: one get_nowait that returns a command
OverflowGetCommand ==
    /\ cmdq # <<>>
    /\ cmdq' = Tail(cmdq)
    /\ hist' = [ hist EXCEPT !.delivered.cmd = Append(@, Head(cmdq)) ]
    /\ UNCHANGED <<engine, pc, loc, ctl, inq, hub, mono, local_h, ui, seen,
                   gin, gout, drn, dh, tcl, disk, vfile, vres, adp, proc>>

\* InboundQueue.drain: one get_nowait that returns an event
OverflowGetEvent ==
    /\ inq # <<>>
    /\ inq' = Tail(inq)
    /\ hist' = [ hist EXCEPT !.delivered.evt = Append(@, Head(inq)) ]
    /\ UNCHANGED <<engine, pc, loc, ctl, cmdq, hub, mono, local_h, ui, seen,
                   gin, gout, drn, dh, tcl, disk, vfile, vres, adp, proc>>

OverflowNext ==
    \/ OverflowPushCommand
    \/ OverflowPushEvent
    \/ OverflowGetCommand
    \/ OverflowGetEvent

OverflowSpec == Init /\ [][OverflowNext]_vars

-----------------------------------------------------------------------------
(* Both queues under concurrent use: threads that push, and the engine      *)
(* threads, each of which may be inside a drain                             *)

\* capacity of the queue a push went to
CapacityOf(kind) == IF kind = "cmd" THEN CmdQueueMax ELSE InQueueMax

\* pushes over a run: more than either queue holds
MaxDrainPushes == 3

\* threads that push into a queue
Producers == { 1, 2 }

\* the queues: the CommandQueue and the InboundQueue
Kinds == { "cmd", "evt" }

\* drain() as the engine calls it: without a cap (max_events = 0)
ENGINE_MAX_EVENTS == 0

\* queue.Queue.get_nowait on a non-empty queue: the oldest item, and the rest
get_nowait_Newest(q) ==
    [ item |-> q[Len(q)], rest |-> SubSeq(q, 1, Len(q) - 1) ]

get_nowait(q) == [ item |-> Head(q), rest |-> Tail(q) ]

\* the drain loop ends: the cap is reached (when there is one), or get_nowait
\* raises queue.Empty
DrainStops_OnCapOnly(max_events, count, q) ==
    max_events > 0 /\ count >= max_events

DrainStops(max_events, count, q) ==
    \/ max_events > 0 /\ count >= max_events
    \/ q = <<>>

QueueOf(k) == IF k = "cmd" THEN cmdq ELSE inq

\* the list that the drain of thread t has collected so far
ListOf(t, k) == IF k = "cmd" THEN loc[t].commands ELSE loc[t].events

WithList(l, k, list) ==
    IF k = "cmd" THEN [ l EXCEPT !.commands = list ]
    ELSE [ l EXCEPT !.events = list ]

InDrain(k) == IF k = "cmd" THEN "drain_cmd" ELSE "drain_evt"

\* the n-th item pushed in the run, by producer p
ItemOf(k, n, p) ==
    IF k = "cmd" THEN IntentCommand(n, WALL_EPOCH_MS + p, "LONG")
    ELSE AdapterErrorEvent(n, WALL_EPOCH_MS + p,
                           [ error_code |-> 2104, error_msg |-> "farm ok" ])

\* two engine threads are running their loops, as after start(), a stop()
\* whose join timed out, and start() again
DrainInit ==
    /\ engine = [ InitEngine EXCEPT !.running = TRUE, !.thread = Some(MaxThreads) ]
    /\ pc = [ t \in Threads |-> "while" ]
    /\ loc = [ t \in Threads |-> EmptyLocals ]
    /\ ctl = "idle"
    /\ cmdq = <<>>
    /\ inq = <<>>
    /\ hub = None
    /\ mono = 0
    /\ ui = 0
    /\ seen = [ r \in Readers |-> [ snap |-> None, prev |-> None,
                                    after_cycle |-> FALSE ] ]
    /\ drn = IdleDrain
    /\ dh = InitDataHub
    /\ tcl = InitLogger
    /\ disk = InitDisk
    /\ adp = InitAdapter
    /\ proc = InitProcess
    /\ hist = InitHist
    /\ local_h = LocalStartHour
    /\ gin = NoGateInputs
    /\ gout = None
    /\ NoValidation

\* CommandQueue.push / InboundQueue.push by producer p: put_nowait
DrainOffer(p, k) ==
    /\ hist.inputs < MaxDrainPushes
    /\ LET item == ItemOf(k, hist.inputs + 1, p)
           room == CanPut(QueueOf(k), CapacityOf(k))
       IN  /\ IF k = "cmd"
              THEN cmdq' = PushCommand(cmdq, item) /\ inq' = inq
              ELSE inq' = PushEvent(inq, item) /\ cmdq' = cmdq
           /\ hist' = [ hist EXCEPT
                          !.inputs = @ + 1,
                          !.accepted[k] = IF room THEN Append(@, item) ELSE @ ]
    /\ UNCHANGED <<engine, pc, loc, ctl, hub, mono, local_h, ui, seen, gin,
                   gout, drn, dh, tcl, disk, vfile, vres, adp, proc>>

\* engine thread t enters drain(): its list is empty
DrainCall(t, k) ==
    /\ pc[t] = "while"
    /\ pc' = [ pc EXCEPT ![t] = InDrain(k) ]
    /\ loc' = [ loc EXCEPT ![t] = WithList(@, k, <<>>) ]
    /\ UNCHANGED <<engine, ctl, cmdq, inq, hub, mono, local_h, ui, seen, gin,
                   gout, drn, hist, dh, tcl, disk, vfile, vres, adp, proc>>

\* one turn of the loop in which get_nowait returns an item
DrainTake(t, k) ==
    /\ pc[t] = InDrain(k)
    /\ ~DrainStops(ENGINE_MAX_EVENTS, Len(ListOf(t, k)), QueueOf(k))
    /\ QueueOf(k) # <<>>
    /\ LET got == get_nowait(QueueOf(k))
       IN  /\ IF k = "cmd"
              THEN cmdq' = got.rest /\ inq' = inq
              ELSE inq' = got.rest /\ cmdq' = cmdq
           /\ loc' = [ loc EXCEPT
                         ![t] = WithList(@, k, Append(ListOf(t, k), got.item)) ]
           /\ hist' = [ hist EXCEPT !.delivered[k] = Append(@, got.item) ]
    /\ UNCHANGED <<engine, pc, ctl, hub, mono, local_h, ui, seen, gin, gout,
                   drn, dh, tcl, disk, vfile, vres, adp, proc>>

\* the loop ends and the list is returned (the record keeps the lists that
\* hold items)
DrainFinish(t, k) ==
    /\ pc[t] = InDrain(k)
    /\ DrainStops(ENGINE_MAX_EVENTS, Len(ListOf(t, k)), QueueOf(k))
    /\ pc' = [ pc EXCEPT ![t] = "while" ]
    /\ loc' = [ loc EXCEPT ![t] = WithList(@, k, <<>>) ]
    /\ hist' = [ hist EXCEPT
                   !.batches = AppendIf(ListOf(t, k) # <<>>, @,
                                        [ kind |-> k, thread |-> t,
                                          items |-> ListOf(t, k) ]) ]
    /\ UNCHANGED <<engine, ctl, cmdq, inq, hub, mono, local_h, ui, seen, gin,
                   gout, drn, dh, tcl, disk, vfile, vres, adp, proc>>

DrainNext ==
    \/ \E p \in Producers, k \in Kinds : DrainOffer(p, k)
    \/ \E t \in Threads, k \in Kinds : DrainCall(t, k)
    \/ \E t \in Threads, k \in Kinds : DrainTake(t, k)
    \/ \E t \in Threads, k \in Kinds : DrainFinish(t, k)

DrainSpec == DrainInit /\ [][DrainNext]_vars

-----------------------------------------------------------------------------
(* The engine's command drain on its own: pushes and whole _drain_commands *)

\* EngineLoop._drain_commands: command_queue.drain() and the batch applied
DrainCommands ==
    /\ engine' = ApplyBatch(engine, Coalesce(cmdq))
    /\ cmdq' = <<>>
    /\ hist' = [ hist EXCEPT !.last_pushes = cmdq, !.since_drain = <<>> ]
    /\ UNCHANGED <<pc, loc, ctl, inq, hub, mono, local_h, ui, seen, gin, gout,
                   drn, dh, tcl, disk, vfile, vres, adp, proc>>

ControlNext ==
    \/ \E cmd \in CommandSet : QueuePush(cmd)
    \/ DrainCommands

ControlSpec == Init /\ [][ControlNext]_vars

-----------------------------------------------------------------------------
(* The engine's event drain on its own: pushes and whole _drain_inbound_events *)

\* quotes that carry some of the fields: a bid alone, sizes alone
PartialQuotePayloads ==
    { [ con_id |-> 12345, bid |-> Some(1850010), ask |-> None, last |-> None,
        bid_size |-> None, ask_size |-> None, ts_exch_unix_ms |-> None ],
      [ con_id |-> 12345, bid |-> None, ask |-> None, last |-> None,
        bid_size |-> Some(9), ask_size |-> Some(3),
        ts_exch_unix_ms |-> Some(WALL_EPOCH_MS + 1) ] }

AdapterPushPartialQuote ==
    \E p \in PartialQuotePayloads : AdapterPush(QuoteEvent(mono, now_unix_ms, p))

\* EngineLoop._drain_inbound_events: inbound_queue.drain() and the loop over
\* what it returned
DrainInboundEvents ==
    /\ engine' = ApplyEvents(engine, inq)
    /\ inq' = <<>>
    /\ hist' = [ hist EXCEPT
                   !.evt_drain = Some([ before |-> engine, events |-> inq ]) ]
    /\ UNCHANGED <<pc, loc, ctl, cmdq, hub, mono, local_h, ui, seen, gin, gout,
                   drn, dh, tcl, disk, vfile, vres, adp, proc>>

EventNext ==
    \/ AdapterPushQuote
    \/ AdapterPushPartialQuote
    \/ AdapterPushStatus
    \/ AdapterPushError
    \/ ClockAdvance
    \/ DrainInboundEvents

EventSpec == Init /\ [][EventNext]_vars

-----------------------------------------------------------------------------
(* TriggerCardLogger on its own: tick() calls statement by statement, the   *)
(* local clock, and the process stopping at any point                       *)

\* tick() calls over a run
MaxTicks == 3

\* local time at the start (day 0, 23:00) and how many hours it may move
LoggerStartHour == 23

MaxLoggerHours == 2

\* the fields of a Snapshot that tick reads, as the engine sets them
LoggerSnapshot(id, reasons) ==
    [ run_id |-> RUN_ID, snapshot_id |-> id, ts_unix_ms |-> WALL_EPOCH_MS + id,
      ready |-> reasons = <<>>, ready_reasons |-> reasons ]

\* the snapshot argument of tick: none yet, a ready and a blocked Snapshot
TickSnapshots ==
    { None, Some(LoggerSnapshot(1, <<>>)),
      Some(LoggerSnapshot(2, <<REASON_ARM_OFF>>)) }

\* the now_mono_ns argument of tick, around the cadence interval
TickNows ==
    { 0, CADENCE_INTERVAL_NS - 1, CADENCE_INTERVAL_NS, 2 * CADENCE_INTERVAL_NS }

LoggerInit ==
    /\ InitObjects
    /\ local_h = LoggerStartHour
    /\ gin = NoGateInputs
    /\ gout = None
    /\ NoValidation

\* now_mono_ns of the card written last
LastWrittenNow ==
    IF hist.written = <<>> THEN None
    ELSE Some(hist.written[Len(hist.written)].now_mono_ns)

\* tick(now_mono_ns, snapshot) is called: the cadence and snapshot tests
TickCall(now_mono_ns, snapshot) ==
    /\ ProcessRuns
    /\ tcl.pc = "idle"
    /\ hist.tick_calls < MaxTicks
    /\ LET emits ==
               /\ _should_emit(tcl.last_emit_mono_ns, tcl.cadence_interval_ns,
                               now_mono_ns)
               /\ ~IsNone(snapshot)
       IN  tcl' = IF emits
                  THEN [ tcl EXCEPT !.pc = "rotate",
                                    !.now_mono_ns = now_mono_ns,
                                    !.snapshot = snapshot ]
                  ELSE tcl
    /\ hist' = [ hist EXCEPT
                   !.tick_calls = @ + 1,
                   !.last_tick = Some([ now_mono_ns |-> now_mono_ns,
                                        snapshot |-> snapshot,
                                        local_date |-> DateOf(local_h),
                                        prev |-> LastWrittenNow,
                                        wrote |-> FALSE,
                                        raised |-> None ]) ]
    /\ UNCHANGED <<engine, pc, loc, ctl, cmdq, inq, hub, mono, local_h, ui,
                   seen, gin, gout, drn, dh, disk, vfile, vres, adp, proc>>

\* _check_rotation: the local date is read and compared
TickCheckRotation ==
    /\ ProcessRuns
    /\ tcl.pc = "rotate"
    /\ LET local_date == _get_local_date
       IN  tcl' = [ tcl EXCEPT
                      !.local_date = Some(local_date),
                      !.pc = IF NeedsRotation(local_date, tcl.current_date)
                             THEN IF ~IsNone(tcl.current_file)
                                  THEN "close" ELSE "open"
                             ELSE "write" ]
    /\ UNCHANGED <<engine, pc, loc, ctl, cmdq, inq, hub, mono, local_h, ui,
                   seen, gin, gout, drn, dh, disk, vfile, vres, adp, proc,
                   hist>>

\* _check_rotation: self._current_file.close(); self._current_file = None
TickRotateClose ==
    /\ ProcessRuns
    /\ tcl.pc = "close"
    /\ disk' = CloseHandle(disk, Val(tcl.current_file))
    /\ tcl' = [ tcl EXCEPT !.current_file = None, !.pc = "open" ]
    /\ UNCHANGED <<engine, pc, loc, ctl, cmdq, inq, hub, mono, local_h, ui,
                   seen, gin, gout, drn, dh, vfile, vres, adp, proc, hist>>

\* _check_rotation: the new date is kept and its file opened for append
TickRotateOpen ==
    /\ ProcessRuns
    /\ tcl.pc = "open"
    /\ LET filepath == _get_filepath(Val(tcl.local_date), tcl.run_id)
       IN  /\ disk' = OpenAppend(disk, filepath)
           /\ tcl' = [ tcl EXCEPT !.current_date = tcl.local_date,
                                  !.current_file = Some(filepath),
                                  !.pc = "write" ]
    /\ UNCHANGED <<engine, pc, loc, ctl, cmdq, inq, hub, mono, local_h, ui,
                   seen, gin, gout, drn, dh, vfile, vres, adp, proc, hist>>

\* the card is built; _write_card: json.dumps and write(json_line), or the
\* RuntimeError of a logger without a file, which ends the tick
TickWriteLine ==
    /\ ProcessRuns
    /\ tcl.pc = "write"
    /\ IF IsNone(tcl.current_file)
       THEN /\ tcl' = TickRaises(tcl)
            /\ hist' = Raising(hist, "RuntimeError")
            /\ disk' = disk
       ELSE LET card == TriggerCard(tcl.run_id, Val(tcl.snapshot))
                json_line == json_dumps(to_dict(card))
            IN  /\ disk' = WriteHandle(disk, Val(tcl.current_file), json_line)
                /\ tcl' = [ tcl EXCEPT !.pc = "newline" ]
                /\ hist' = hist
    /\ UNCHANGED <<engine, pc, loc, ctl, cmdq, inq, hub, mono, local_h, ui,
                   seen, gin, gout, drn, dh, vfile, vres, adp, proc>>

\* _write_card: write('\n')
TickWriteNewline ==
    /\ ProcessRuns
    /\ tcl.pc = "newline"
    /\ disk' = WriteHandle(disk, Val(tcl.current_file), <<Newline>>)
    /\ tcl' = [ tcl EXCEPT !.pc = "flush" ]
    /\ UNCHANGED <<engine, pc, loc, ctl, cmdq, inq, hub, mono, local_h, ui,
                   seen, gin, gout, drn, dh, vfile, vres, adp, proc, hist>>

\* _write_card: flush() and os.fsync: the card is in the file
TickFlush ==
    /\ ProcessRuns
    /\ tcl.pc = "flush"
    /\ LET path == Val(tcl.current_file)
       IN  /\ disk' = FlushHandle(disk, path)
           /\ hist' = [ hist EXCEPT
                          !.written =
                              Append(@, [ now_mono_ns |-> tcl.now_mono_ns,
                                          snapshot |-> Val(tcl.snapshot),
                                          local_date |->
                                              Val(hist.last_tick).local_date,
                                          path |-> path,
                                          line |-> Len(readlines(disk'.files[path])) ]),
                          !.last_tick = Some([ Val(@) EXCEPT !.wrote = TRUE ]) ]
    /\ tcl' = [ tcl EXCEPT !.pc = "emitted" ]
    /\ UNCHANGED <<engine, pc, loc, ctl, cmdq, inq, hub, mono, local_h, ui,
                   seen, gin, gout, drn, dh, vfile, vres, adp, proc>>

\* back in tick: self._last_emit_mono_ns = now_mono_ns, and tick returns
TickReturn ==
    /\ ProcessRuns
    /\ tcl.pc = "emitted"
    /\ tcl' = [ tcl EXCEPT !.last_emit_mono_ns = Some(tcl.now_mono_ns),
                           !.pc = "idle" ]
    /\ UNCHANGED <<engine, pc, loc, ctl, cmdq, inq, hub, mono, local_h, ui,
                   seen, gin, gout, drn, dh, disk, vfile, vres, adp, proc,
                   hist>>

\* the local clock reaches the next hour, between two ticks
LoggerHourAdvance ==
    /\ ProcessRuns
    /\ tcl.pc = "idle"
    /\ local_h < LoggerStartHour + MaxLoggerHours
    /\ local_h' = local_h + 1
    /\ UNCHANGED <<engine, pc, loc, ctl, cmdq, inq, hub, mono, ui, seen, gin,
                   gout, drn, dh, tcl, disk, vfile, vres, adp, proc, hist>>

\* the process stops: of what an open handle still buffers, any first part
\* may have reached the file (Python's buffers pass data on as they fill,
\* and a flush under way may have been cut short); the rest is lost
ProcessStops ==
    /\ ProcessRuns
    /\ proc' = [ proc EXCEPT !.killed = TRUE ]
    /\ IF IsNone(tcl.current_file)
       THEN disk' = disk
       ELSE LET path == Val(tcl.current_file)
            IN  \E n \in 0..Len(disk.handles[path]) :
                    disk' = [ WriteThrough(disk, path, n)
                                EXCEPT !.handles = <<>> ]
    /\ UNCHANGED <<engine, pc, loc, ctl, cmdq, inq, hub, mono, local_h, ui,
                   seen, gin, gout, drn, dh, tcl, vfile, vres, adp, hist>>

LoggerNext ==
    \/ \E now_mono_ns \in TickNows, snapshot \in TickSnapshots :
           TickCall(now_mono_ns, snapshot)
    \/ TickCheckRotation
    \/ TickRotateClose
    \/ TickRotateOpen
    \/ TickWriteLine
    \/ TickWriteNewline
    \/ TickFlush
    \/ TickReturn
    \/ LoggerHourAdvance
    \/ ProcessStops

LoggerSpec == LoggerInit /\ [][LoggerNext]_vars

-----------------------------------------------------------------------------
(* validate_triggercard_file on its own: one call on every small file *)

\* lines of a file under validation
MaxLines == 3

ACard == TriggerCard(LOGGER_RUN_ID, LoggerSnapshot(1, <<>>))

\* the texts a line may hold: a card, the start of a card, a card without
\* schema_version, of another schema, without ready_reasons, blanks, nothing,
\* and a bare number
LineTexts ==
    { json_dumps(to_dict(ACard)),
      SubSeq(json_dumps(to_dict(ACard)), 1, 3),
      json_dumps(Tail(to_dict(ACard))),
      json_dumps(to_dict([ ACard EXCEPT !.schema_version = "triggercard.v0" ])),
      json_dumps(SubSeq(to_dict(ACard), 1, 5)),
      <<Blank>>,
      <<>>,
      <<Scalar(123)>> }

RECURSIVE JoinLines(_)
\* the lines, each with its newline
JoinLines(texts) ==
    IF texts = <<>> THEN <<>>
    ELSE Head(texts) \o <<Newline>> \o JoinLines(Tail(texts))

\* files of up to MaxLines lines, the last with or without its newline, and
\* no file at all
ValidatorFiles ==
    { None }
    \cup { Some(JoinLines(texts)) :
             texts \in UNION { [ 1..n -> LineTexts ] : n \in 0..MaxLines } }
    \cup { Some(JoinLines(SubSeq(texts, 1, Len(texts) - 1)) \o texts[Len(texts)]) :
             texts \in UNION { [ 1..n -> LineTexts ] : n \in 1..MaxLines } }

ValidatorInit ==
    /\ InitProgram
    /\ gin = NoGateInputs
    /\ gout = None
    /\ vfile \in ValidatorFiles
    /\ vres = None

Validate ==
    /\ IsNone(vres)
    /\ vres' = Some(validate_triggercard_file(vfile))
    /\ UNCHANGED <<engine, pc, loc, ctl, cmdq, inq, hub, mono, local_h, ui,
                   seen, gin, gout, drn, dh, tcl, disk, vfile, adp, proc,
                   hist>>

ValidatorNext == Validate

ValidatorSpec == ValidatorInit /\ [][ValidatorNext]_vars

-----------------------------------------------------------------------------
(* TriggerCardLogger with a file system that can fail, and close() calls *)

\* I/O errors over a run
MaxFaults == 2

\* _check_rotation: self._current_date = local_date, then open() raises
\* OSError (directory gone, no permission, disk full): the date is kept, no
\* file is held, and the exception leaves tick
TickOpenFails ==
    /\ ProcessRuns
    /\ tcl.pc = "open"
    /\ hist.faults < MaxFaults
    /\ tcl' = TickRaises([ tcl EXCEPT !.current_date = tcl.local_date ])
    /\ hist' = [ Raising(hist, "OSError") EXCEPT !.faults = @ + 1 ]
    /\ UNCHANGED <<engine, pc, loc, ctl, cmdq, inq, hub, mono, local_h, ui,
                   seen, gin, gout, drn, dh, disk, vfile, vres, adp, proc>>

\* _write_card: write(), flush() or os.fsync() raises OSError: what the
\* handle holds stays in its buffer, _last_emit_mono_ns is not set, and the
\* exception leaves tick
TickWriteFails ==
    /\ ProcessRuns
    /\ tcl.pc \in { "write", "newline", "flush" }
    /\ ~IsNone(tcl.current_file)
    /\ hist.faults < MaxFaults
    /\ tcl' = TickRaises(tcl)
    /\ hist' = [ Raising(hist, "OSError") EXCEPT !.faults = @ + 1 ]
    /\ UNCHANGED <<engine, pc, loc, ctl, cmdq, inq, hub, mono, local_h, ui,
                   seen, gin, gout, drn, dh, disk, vfile, vres, adp, proc>>

\* TriggerCardLogger.close(), between two ticks: the file is closed and
\* forgotten, _current_date stays
LoggerClose ==
    /\ ProcessRuns
    /\ tcl.pc = "idle"
    /\ hist.closes < MaxFaults
    /\ IF IsNone(tcl.current_file)
       THEN UNCHANGED <<tcl, disk>>
       ELSE /\ disk' = CloseHandle(disk, Val(tcl.current_file))
            /\ tcl' = [ tcl EXCEPT !.current_file = None ]
    /\ hist' = [ hist EXCEPT !.closes = @ + 1 ]
    /\ UNCHANGED <<engine, pc, loc, ctl, cmdq, inq, hub, mono, local_h, ui,
                   seen, gin, gout, drn, dh, vfile, vres, adp, proc>>

LoggerFaultNext ==
    \/ \E now_mono_ns \in TickNows, snapshot \in TickSnapshots :
           TickCall(now_mono_ns, snapshot)
    \/ TickCheckRotation
    \/ TickRotateClose
    \/ TickRotateOpen
    \/ TickOpenFails
    \/ TickWriteLine
    \/ TickWriteNewline
    \/ TickFlush
    \/ TickWriteFails
    \/ TickReturn
    \/ LoggerHourAdvance
    \/ LoggerClose

LoggerFaultSpec == LoggerInit /\ [][LoggerFaultNext]_vars

-----------------------------------------------------------------------------
(* IBKRAdapter and AdapterRunner on their own: callbacks in either thread *)

\* error codes the broker reports: the fatal one, a lost connection, a notice
ErrorCodes == { ERROR_CLIENT_ID_IN_USE, 1100, 2104 }

\* AdapterRunner.start
RunnerStart ==
    /\ ProcessRuns
    /\ ~adp.running
    /\ adp' = [ adp EXCEPT !.running = TRUE, !.thread = "alive" ]
    /\ UNCHANGED <<engine, pc, loc, ctl, cmdq, inq, hub, mono, local_h, ui,
                   seen, gin, gout, drn, dh, tcl, disk, vfile, vres, proc,
                   hist>>

\* a thread that can deliver a callback now
Delivers(thread) ==
    /\ ProcessRuns
    /\ thread = "runner" => adp.thread = "alive"

\* the tickers ib_insync hands over: live, delayed or halted, with the
\* quotes above (the broker gives no exchange time for L1)
Tickers ==
    { [ halted |-> h, delayed |-> d,
        quote |-> [ q EXCEPT !.ts_exch_unix_ms = None ] ] :
          h \in BOOLEAN, d \in BOOLEAN, q \in QuotePayloads }

\* IBKRAdapter._emit_status_event with the adapter's mode
EmitStatus(q, connected, md_mode, reason, error_code) ==
    PushEvent(q, StatusEvent(mono, now_unix_ms,
                             [ connected |-> connected, md_mode |-> md_mode,
                               reason |-> reason, error_code |-> error_code ]))

\* IBKRAdapter._on_connected: connected, mode REALTIME, a StatusEvent
OnConnected(thread) ==
    /\ Delivers(thread)
    /\ hist.inputs < MaxInputs
    /\ adp' = [ adp EXCEPT !.connected = TRUE, !.md_mode = "REALTIME" ]
    /\ inq' = EmitStatus(inq, TRUE, "REALTIME", Some("Connected"), None)
    /\ hist' = [ hist EXCEPT !.inputs = @ + 1 ]
    /\ UNCHANGED <<engine, pc, loc, ctl, cmdq, hub, mono, local_h, ui, seen,
                   gin, gout, drn, dh, tcl, disk, vfile, vres, proc>>

\* IBKRAdapter._on_pending_tickers with one ticker: the mode follows the
\* ticker (a StatusEvent when it changes), then the QuoteEvent is pushed
OnPendingTickers(thread) ==
    /\ Delivers(thread)
    /\ hist.inputs < MaxInputs
    /\ \E ticker \in Tickers :
         LET md_mode == TickerMode(ticker, adp.connected)
             q1 == IF md_mode # adp.md_mode
                   THEN EmitStatus(inq, adp.connected, md_mode,
                                   Some("md_mode changed to " \o md_mode), None)
                   ELSE inq
         IN  /\ adp' = [ adp EXCEPT !.md_mode = md_mode ]
             /\ inq' = PushEvent(q1, QuoteEvent(mono, now_unix_ms, ticker.quote))
    /\ hist' = [ hist EXCEPT !.inputs = @ + 1 ]
    /\ UNCHANGED <<engine, pc, loc, ctl, cmdq, hub, mono, local_h, ui, seen,
                   gin, gout, drn, dh, tcl, disk, vfile, vres, proc>>

\* IBKRAdapter._on_disconnected, delivered in the given thread: the
\* market-data mode is reset and a StatusEvent is emitted
OnDisconnected(thread) ==
    /\ Delivers(thread)
    /\ hist.inputs < MaxInputs
    /\ adp' = [ adp EXCEPT !.connected = FALSE, !.md_mode = "NONE" ]
    /\ inq' = EmitStatus(inq, FALSE, "NONE", Some("Disconnected"), None)
    /\ hist' = [ hist EXCEPT !.inputs = @ + 1 ]
    /\ UNCHANGED <<engine, pc, loc, ctl, cmdq, hub, mono, local_h, ui, seen,
                   gin, gout, drn, dh, tcl, disk, vfile, vres, proc>>

\* IBKRAdapter._on_error(reqId, errorCode, ...), delivered in the given
\* thread: on 326 _emit_status_event (a full queue is logged and swallowed)
\* and sys.exit(1); a SystemExit leaves _run_loop with _running still set
OnError(thread, errorCode) ==
    /\ Delivers(thread)
    /\ hist.inputs < MaxInputs
    /\ IF errorCode = ERROR_CLIENT_ID_IN_USE
       THEN /\ inq' = EmitStatus(inq, FALSE, adp.md_mode,
                                 Some("clientId collision (error 326)"),
                                 Some(ERROR_CLIENT_ID_IN_USE))
            /\ proc' = SysExit(proc, thread, 1)
            /\ adp' = IF thread = "runner"
                      THEN [ adp EXCEPT !.thread = "dead" ] ELSE adp
            /\ hist' = [ hist EXCEPT
                           !.inputs = @ + 1,
                           !.fatal = Some([ thread |-> thread,
                                            pushed |-> CanPut(inq, InQueueMax) ]) ]
       ELSE /\ hist' = [ hist EXCEPT !.inputs = @ + 1 ]
            /\ UNCHANGED <<inq, proc, adp>>
    /\ UNCHANGED <<engine, pc, loc, ctl, cmdq, hub, mono, local_h, ui, seen,
                   gin, gout, drn, dh, tcl, disk, vfile, vres>>

\* AdapterRunner.stop: _running is cleared and the thread joined; _run_loop
\* sees the flag within an iteration and cleans up its asyncio loop.  Nothing
\* here, or in main()'s finally block that calls it, calls
\* adapter.disconnect()
RunnerStop ==
    /\ ProcessRuns
    /\ adp.running
    /\ adp' = [ adp EXCEPT !.running = FALSE, !.thread = "joined" ]
    /\ UNCHANGED <<engine, pc, loc, ctl, cmdq, inq, hub, mono, local_h, ui,
                   seen, gin, gout, drn, dh, tcl, disk, vfile, vres, proc,
                   hist>>

AdapterNext ==
    \/ RunnerStart
    \/ RunnerStop
    \/ \E thread \in DeliveryThreads : OnConnected(thread)
    \/ \E thread \in DeliveryThreads : OnPendingTickers(thread)
    \/ \E thread \in DeliveryThreads : OnDisconnected(thread)
    \/ \E thread \in DeliveryThreads, errorCode \in ErrorCodes :
           OnError(thread, errorCode)
    \/ ClockAdvance

AdapterSpec == Init /\ [][AdapterNext]_vars

-----------------------------------------------------------------------------
(* main.py : main() up to ui.run, and ui.py : MinimalCLI.run *)

\* the default runtime, 30 s
DefaultDurationMs == 30000

\* MinimalCLI(datahub, display_interval_ms=500, ...)
DISPLAY_INTERVAL_MS == 500

\* how long a run of the display loop is followed
MaxUiElapsedMs == 31000

\* os.environ.get("MAX_RUNTIME_S"): unset, empty, numbers, not a number
EnvValues == { None, Some(""), Some("0.5"), Some("1"), Some("0"), Some("abc") }

\* sys.argv[1]: absent, an integer, not an integer
ArgvValues == { None, Some("2"), Some("x") }

\* float(text), in ms: None where Python raises ValueError
float(text) ==
    CASE text = "0.5" -> Some(500)
      [] text = "1"   -> Some(1000)
      [] text = "0"   -> Some(0)
      [] OTHER        -> None

\* int(text), in ms: None where Python raises ValueError
int(text) ==
    CASE text = "2" -> Some(2000)
      [] OTHER      -> None

\* the parameters of EngineLoop.__init__ and the keywords main() passes
EngineLoopParams ==
    { "datahub", "cycle_target_ms", "overrun_threshold_ms", "inbound_queue",
      "command_queue", "clock" }

EngineLoopKwargs ==
    { "cycle_target_ms", "command_queue", "triggercard_logger", "inbound_queue" }

\* Python raises TypeError on a keyword the function does not have
ConstructsEngineLoop == EngineLoopKwargs \subseteq EngineLoopParams

\* an uncaught exception in the main thread: traceback, exit code 1
Uncaught(p) == [ p EXCEPT !.at = "done", !.exit = Some(1) ]

\* main(): the runtime limit from MAX_RUNTIME_S, then argv, then the default
MainResolveDuration ==
    /\ ProcessRuns
    /\ proc.at = "init"
    /\ \E max_runtime_s \in EnvValues, argv1 \in ArgvValues :
         LET from_env == IF ~IsNone(max_runtime_s) /\ Val(max_runtime_s) # ""
                         THEN float(Val(max_runtime_s))
                         ELSE None
             from_argv == IF IsNone(argv1) THEN Some(DefaultDurationMs)
                          ELSE int(Val(argv1))
         IN  proc' = IF ~IsNone(from_env)
                     THEN [ proc EXCEPT !.at = "resolved", !.duration = from_env ]
                     ELSE IF IsNone(from_argv)
                     THEN Uncaught(proc)
                     ELSE [ proc EXCEPT !.at = "resolved", !.duration = from_argv ]
    /\ UNCHANGED <<engine, pc, loc, ctl, cmdq, inq, hub, mono, local_h, ui,
                   seen, gin, gout, drn, dh, tcl, disk, vfile, vres, adp,
                   hist>>

\* main(): EngineLoop(datahub, cycle_target_ms=..., command_queue=...,
\* triggercard_logger=..., inbound_queue=...), before the try block
MainCreateEngine ==
    /\ ProcessRuns
    /\ proc.at = "resolved"
    /\ proc' = IF ConstructsEngineLoop
               THEN [ proc EXCEPT !.at = "created" ]
               ELSE Uncaught(proc)
    /\ UNCHANGED <<engine, pc, loc, ctl, cmdq, inq, hub, mono, local_h, ui,
                   seen, gin, gout, drn, dh, tcl, disk, vfile, vres, adp,
                   hist>>

\* durations MinimalCLI.run is called with, in ms
Durations == { 0, 500, 1000, 2000, DefaultDurationMs }

\* MinimalCLI.run(duration_seconds) is entered: by main() with its duration,
\* or by another holder of the CLI
UiRun(duration) ==
    /\ ProcessRuns
    /\ \/ proc.at = "created" /\ proc.duration = Some(duration)
       \/ proc.at = "init"
    /\ proc' = [ proc EXCEPT
                   !.caller = Some(IF proc.at = "created" THEN "main" ELSE "other"),
                   !.at = "ui_check",
                   !.duration = Some(duration),
                   !.ui_running = TRUE,
                   !.start_time_mono = mono ]
    /\ UNCHANGED <<engine, pc, loc, ctl, cmdq, inq, hub, mono, local_h, ui,
                   seen, gin, gout, drn, dh, tcl, disk, vfile, vres, adp,
                   hist>>

\* time.perf_counter() - start_time_mono
UiElapsed == mono - proc.start_time_mono

\* run() returns (its finally clears _running); in main() the finally block
\* stops the engine and the adapter, and the process ends with code 0
UiReturn(p) ==
    LET q == [ p EXCEPT !.ui_running = FALSE, !.returned = Some(UiElapsed) ]
    IN  IF p.caller = Some("main")
        THEN [ q EXCEPT !.at = "done", !.exit = Some(0) ]
        ELSE [ q EXCEPT !.at = "returned" ]

\* "if duration_seconds and elapsed >= duration_seconds": a duration of 0 is
\* false in Python
DurationReached(duration, elapsed) ==
    /\ duration # 0
    /\ elapsed >= duration * MonoPerMs

\* the top of the while loop: the duration check
UiCheck ==
    /\ ProcessRuns
    /\ proc.at = "ui_check"
    /\ proc' = IF ~proc.ui_running \/ DurationReached(Val(proc.duration), UiElapsed)
               THEN UiReturn(proc)
               ELSE [ proc EXCEPT !.at = "ui_body" ]
    /\ UNCHANGED <<engine, pc, loc, ctl, cmdq, inq, hub, mono, local_h, ui,
                   seen, gin, gout, drn, dh, tcl, disk, vfile, vres, adp,
                   hist>>

\* the body of the loop: get_latest, the display, sleep(display_interval)
UiBody ==
    /\ ProcessRuns
    /\ proc.at = "ui_body"
    /\ UiElapsed < MaxUiElapsedMs * MonoPerMs
    /\ mono' = mono + DISPLAY_INTERVAL_MS * MonoPerMs
    /\ proc' = [ proc EXCEPT !.at = "ui_check" ]
    /\ UNCHANGED <<engine, pc, loc, ctl, cmdq, inq, hub, local_h, ui, seen,
                   gin, gout, drn, dh, tcl, disk, vfile, vres, adp, hist>>

\* Ctrl+C while the loop runs: KeyboardInterrupt is caught, run() returns
UiInterrupt ==
    /\ ProcessRuns
    /\ proc.at \in { "ui_check", "ui_body" }
    /\ proc' = UiReturn(proc)
    /\ UNCHANGED <<engine, pc, loc, ctl, cmdq, inq, hub, mono, local_h, ui,
                   seen, gin, gout, drn, dh, tcl, disk, vfile, vres, adp,
                   hist>>

MainNext ==
    \/ MainResolveDuration
    \/ MainCreateEngine
    \/ \E duration \in Durations : UiRun(duration)
    \/ UiCheck
    \/ UiBody
    \/ UiInterrupt

MainSpec == Init /\ [][MainNext]_vars

-----------------------------------------------------------------------------
(* Properties *)

\* membership in a list of reason codes
Has(codes, code) == \E i \in 1..Len(codes) : codes[i] = code

\* the gate panel in its fixed order
GateTable ==
    << "ARM_OFF", "INTENT_FLAT", "OUTSIDE_OPERATING_WINDOW", "SESSION_BREAK",
       "FEED_DISCONNECTED", "MD_NOT_REALTIME", "NO_CONTRACT", "STALE_DATA",
       "SPREAD_UNAVAILABLE", "SPREAD_WIDE", "ENGINE_DEGRADED" >>

\* the failing condition of each gate of the panel
GateFails(code, i) ==
    CASE code = "ARM_OFF" -> ~i.arm
      [] code = "INTENT_FLAT" -> i.intent = "FLAT"
      [] code = "OUTSIDE_OPERATING_WINDOW" -> ~i.in_operating_window
      [] code = "SESSION_BREAK" -> i.is_break_window
      [] code = "FEED_DISCONNECTED" -> ~i.feed_connected
      [] code = "MD_NOT_REALTIME" -> i.md_mode # "REALTIME"
      [] code = "NO_CONTRACT" -> i.con_id = None
      [] code = "STALE_DATA" -> _check_stale_data(i)
      [] code = "SPREAD_UNAVAILABLE" ->
             \/ i.bid = None
             \/ i.ask = None
             \/ i.spread_ticks = None
             \/ (i.spread_ticks # None /\ Val(i.spread_ticks) <= 0)
      [] code = "SPREAD_WIDE" ->
             i.spread_ticks # None /\ Val(i.spread_ticks) > i.max_spread_ticks
      [] code = "ENGINE_DEGRADED" -> i.engine_degraded

\* C1: once a cycle has run, the DataHub holds a published Snapshot, and the
\* published Snapshot has ready equal to gates.allowed and ready_reasons equal
\* to gates.reason_codes, same elements in the same order.
C1_ReadyMirrorsGates ==
    hist.cycles > 0 =>
        /\ hub # None
        /\ Val(hub).ready = Val(hub).gates.allowed
        /\ Val(hub).ready_reasons = Val(hub).gates.reason_codes

\* C2: over a run of the engine the cycles publish Snapshots; the first one
\* published has snapshot_id 1 and every later one has a snapshot_id exactly
\* one greater than the one published immediately before it.
C2_SnapshotIdsConsecutive ==
    hist.cycles > 0 =>
        /\ Len(hist.published) > 0
        /\ hist.published[1].snapshot_id = 1
        /\ \A i \in 2..Len(hist.published) :
               hist.published[i].snapshot_id =
                   hist.published[i - 1].snapshot_id + 1

\* C3: evaluate_hard_gates returns as reason_codes exactly the codes of all
\* failing gates, each once, in the order of the gate table; no failing gate
\* is hidden by another.
C3_AllFailuresInTableOrder ==
    gout # None =>
        LET Failing(code) == GateFails(code, gin)
        IN  Val(gout).reason_codes = SelectSeq(GateTable, Failing)

\* the all-fail record of the gate panel has been evaluated: ten codes, the
\* spread being unavailable rather than wide
C3_Witness ==
    /\ gout # None
    /\ ~gin.arm /\ gin.intent = "FLAT" /\ gin.is_break_window
    /\ gin.engine_degraded /\ gin.spread_ticks = None
    /\ Len(Val(gout).reason_codes) = 10

\* C4: evaluate_hard_gates returns allowed = true if and only if the returned
\* reason_codes list is empty.
C4_AllowedIffNoReasons ==
    gout # None => (Val(gout).allowed <=> Val(gout).reason_codes = <<>>)

\* a record that passes every gate, its spread at the limit, has been evaluated
C4_Witness ==
    /\ gout # None
    /\ Val(gout).allowed
    /\ gin.spread_ticks = Some(MAX_SPREAD_TICKS)

\* C5: commands are applied before events and both before the gates: when the
\* CommandQueue holds an IntentCommand FLAT as its last intent at the start of
\* a cycle, the Snapshot published by that same cycle reports INTENT_FLAT.
C5_FlatSameCycle ==
    (hist.last_cycle # None /\ Val(hist.last_cycle).flat) =>
        /\ hub # None
        /\ Val(hub).snapshot_id = Val(hist.last_cycle).snapshot_id
        /\ Has(Val(hub).ready_reasons, REASON_INTENT_FLAT)

\* C6: CommandQueue.drain empties the queue and returns a batch whose intent
\* is the value of the last IntentCommand pushed since the previous drain
\* (none without one) and whose arm is the value of the last ArmCommand
\* pushed since the previous drain (none without one).
C6_DrainLastWriteWins ==
    [][ (drn.pc = "get" /\ drn'.pc = "idle") =>
            /\ cmdq' = <<>>
            /\ Val(drn'.result).intent = LastIntentOf(hist.since_drain)
            /\ Val(drn'.result).arm = LastArmOf(hist.since_drain) ]_vars

\* a drain has returned a batch made from two IntentCommands of different
\* intents
C6_Witness ==
    /\ drn.result # None
    /\ \E i, j \in KindIdx(hist.last_pushes, "intent") :
           /\ i < j
           /\ hist.last_pushes[i].intent # hist.last_pushes[j].intent
           /\ Val(drn.result).intent = Some(hist.last_pushes[j].intent)

\* intent, arm and last_cmd_id of the engine
Controls(eng) == <<eng.intent, eng.arm, eng.last_cmd_id>>

\* engine thread t returns from _drain_commands in this step
DrainsCommands(t) == pc[t] = "drain_cmd" /\ pc'[t] = "drain_evt"

C8_ReaderNeverGoesBack ==
    \A r \in Readers :
        /\ seen[r].after_cycle => seen[r].snap # None
        /\ (seen[r].prev # None /\ seen[r].snap # None) =>
               Val(seen[r].snap).snapshot_id >= Val(seen[r].prev).snapshot_id

\* C9: at most one engine thread at a time is inside a cycle.
C9_SingleWriter == Cardinality({ t \in Threads : InCycle(t) }) <= 1

\* C10: once a cycle has run, the DataHub holds a published Snapshot, and every
\* field of it, nested records and reason lists included, is what the cycle
\* that published it built.
C10_PublishedNeverChanges ==
    hist.cycles > 0 =>
        /\ hub # None
        /\ \E i \in 1..Len(hist.published) : hist.published[i] = Val(hub)

\* what get_latest returns when n publish calls have returned
LatestOf(n) == IF n = 0 THEN None ELSE Some(hist.hub_calls[n])

\* C11: with one publisher and concurrent readers, get_latest reads null while
\* no publish has returned and otherwise exactly the Snapshot passed to the
\* publish that returned last, whole, and that is the value it returns.
C11_GetLatestIsLastPublished ==
    \A r \in Readers :
        ~IsNone(hist.read_at[r]) =>
            LET got == IF dh.rd[r].pc = "unlock" THEN dh.rd[r].ret
                       ELSE seen[r].snap
            IN  got = LatestOf(Val(hist.read_at[r]))

\* a reader was returned the first Snapshot and then, while the publisher was
\* waiting for the lock the reader held, the second one
C11_Witness ==
    \E r \in Readers :
        /\ seen[r].prev = Some(HubSnapshot(1))
        /\ seen[r].snap = Some(HubSnapshot(2))
        /\ hist.hub_done = 2

\* the Snapshot the last finished cycle built
Built == Val(hist.last_cycle).built

\* C12: an exception raised inside a cycle does not end the engine: no engine
\* thread is ever ended by one (the thread is back at the head of its loop),
\* and the DataHub keeps what it held.
C12_CycleExceptionSurvived ==
    /\ \A t \in Threads : pc[t] # "dead"
    /\ hist.published # <<>> =>
           hub = Some(hist.published[Len(hist.published)])

\* C13: once a QuoteEvent carrying a contract id has been drained, the
\* Snapshot a cycle builds has instrument.con_id equal to that id and does not
\* report NO_CONTRACT.
C13_ConIdStored ==
    (hist.last_cycle # None /\ hist.con_id # None) =>
        /\ Built.instrument.con_id = hist.con_id
        /\ ~Has(Built.ready_reasons, REASON_NO_CONTRACT)

\* bid, ask and last of a GateInputs record are all null
NoPrice(inputs) == IsNone(inputs.bid) /\ IsNone(inputs.ask) /\ IsNone(inputs.last)

\* staleness_ms of a GateInputs record is past its threshold
StalenessOver(inputs) ==
    /\ ~IsNone(inputs.quote_staleness_ms)
    /\ Val(inputs.quote_staleness_ms) > inputs.stale_threshold_ms

\* time from the last quote event to now, in clock units (none seen: null)
QuoteEventAge(inputs) ==
    IF IsNone(inputs.last_quote_event_mono_ns) THEN None
    ELSE Some(inputs.ts_mono_ns - Val(inputs.last_quote_event_mono_ns))

\* a quote event has been seen and that time is greater than the timeout
HeartbeatOver(inputs) ==
    /\ ~IsNone(QuoteEventAge(inputs))
    /\ Val(QuoteEventAge(inputs)) > inputs.feed_heartbeat_timeout_ms * MonoPerMs

\* C14: STALE_DATA is reported if and only if bid, ask and last are all null,
\* or staleness_ms is greater than stale_threshold_ms, or a quote event has
\* been seen and the time from it to now is greater than the heartbeat
\* timeout.
C14_StaleDataIff ==
    gout # None =>
        (Has(Val(gout).reason_codes, REASON_STALE_DATA)
           <=> (NoPrice(gin) \/ StalenessOver(gin) \/ HeartbeatOver(gin)))

\* C15: the numeric gates compare strictly.  A staleness_ms equal to its
\* threshold, a quote-event age equal to the heartbeat timeout and a
\* spread_ticks equal to max_spread_ticks do not trigger STALE_DATA or
\* SPREAD_WIDE; any value greater than its threshold does.
C15_StrictThresholds ==
    gout # None =>
        LET reasons == Val(gout).reason_codes
            age == QuoteEventAge(gin)
            at_timeout == age = Some(gin.feed_heartbeat_timeout_ms * MonoPerMs)
        IN  /\ ( /\ gin.quote_staleness_ms = Some(gin.stale_threshold_ms)
                 /\ ~NoPrice(gin)
                 /\ (IsNone(age) \/ at_timeout) )
                   => ~Has(reasons, REASON_STALE_DATA)
            /\ ( /\ at_timeout
                 /\ ~NoPrice(gin)
                 /\ ~StalenessOver(gin) )
                   => ~Has(reasons, REASON_STALE_DATA)
            /\ gin.spread_ticks = Some(gin.max_spread_ticks)
                   => ~Has(reasons, REASON_SPREAD_WIDE)
            /\ StalenessOver(gin) => Has(reasons, REASON_STALE_DATA)
            /\ HeartbeatOver(gin) => Has(reasons, REASON_STALE_DATA)
            /\ ( /\ ~IsNone(gin.spread_ticks)
                 /\ Val(gin.spread_ticks) > gin.max_spread_ticks )
                   => Has(reasons, REASON_SPREAD_WIDE)

\* C16 as claimed: a local time whose hour is exactly the operating-window
\* end hour does not trigger OUTSIDE_OPERATING_WINDOW.
C16_EndHourInside ==
    (gout # None /\ HourOf(local_h) = OPERATING_END_HOUR) =>
        ~Has(Val(gout).reason_codes, REASON_OUTSIDE_OPERATING_WINDOW)

\* C16 amended: a local time whose hour is exactly the operating-window end
\* hour triggers OUTSIDE_OPERATING_WINDOW (the window is [start, end)); the
\* hour before the end hour is the last one that does not.
C16_EndHourOutside ==
    gout # None =>
        /\ HourOf(local_h) = OPERATING_END_HOUR =>
               Has(Val(gout).reason_codes, REASON_OUTSIDE_OPERATING_WINDOW)
        /\ HourOf(local_h) = OPERATING_END_HOUR - 1 =>
               ~Has(Val(gout).reason_codes, REASON_OUTSIDE_OPERATING_WINDOW)

\* the gates were evaluated at 16:00 of the second day
C16_Witness ==
    /\ gout # None
    /\ local_h = 24 + OPERATING_END_HOUR
    /\ ~gin.in_operating_window

\* C17: a push onto a full InboundQueue or CommandQueue returns at once with
\* queue.Full (a push is possible in every state, full queue or not) and
\* leaves the queued items and their order unchanged; what the consumers are
\* handed, followed by what is still queued, is exactly the items pushed
\* while there was room, in push order: a rejected item is never delivered.
C17_FullPushRejected ==
    /\ hist.last_push # None =>
           LET p == Val(hist.last_push)
           IN  Len(p.before) >= CapacityOf(p.kind) =>
                   /\ p.raised = Some("queue.Full")
                   /\ p.after = p.before
    /\ hist.inputs < MaxOverflowPushes =>
           (ENABLED OverflowPushCommand /\ ENABLED OverflowPushEvent)
    /\ hist.delivered.cmd \o cmdq = hist.accepted.cmd
    /\ hist.delivered.evt \o inq = hist.accepted.evt

\* both queues have rejected a push while full, and everything accepted
\* before has since been handed out
C17_Witness ==
    /\ hist.last_push # None
    /\ Val(hist.last_push).raised = Some("queue.Full")
    /\ Len(hist.accepted.cmd) = CmdQueueMax /\ Len(hist.accepted.evt) = InQueueMax
    /\ hist.inputs = CmdQueueMax + InQueueMax + 2
    /\ cmdq = <<>> /\ inq = <<>>

\* C18: quotes_received_count of the Snapshot a cycle builds is the number of
\* QuoteEvents drained so far that carried at least one of bid, ask, last.
C18_CountsPricedQuotes ==
    hist.last_cycle # None => Built.quotes_received_count = hist.priced

\* C19: while no QuoteEvent with a price has been drained, staleness_ms of the
\* Snapshot a cycle builds is null, whatever contract-id-only QuoteEvents
\* were drained.
C19_ContractOnlyKeepsStalenessNull ==
    (hist.last_cycle # None /\ hist.priced = 0) =>
        IsNone(Built.quote.staleness_ms)

\* C20: every finished cycle has called TriggerCardLogger.tick once, the last
\* call with the Snapshot that the cycle published.
C20_TickOncePerCycle ==
    hist.cycles > 0 =>
        /\ Len(hist.ticks) = hist.cycles
        /\ hub = Some(hist.ticks[Len(hist.ticks)])

\* the commands the latest _drain_commands drained, and the last of them
Drained == hist.last_pushes

LastDrained == Drained[Len(Drained)]

\* C30: after a cycle's drain that applied at least one command, the
\* engine's last_cmd_id and last_cmd_ts_unix_ms are those of the command
\* pushed last among the drained ones, whatever its cmd_id.
C30_LastCommandIdentity ==
    Drained # <<>> =>
        /\ engine.last_cmd_id = LastDrained.cmd_id
        /\ engine.last_cmd_ts_unix_ms = Some(LastDrained.ts_unix_ms)

\* C27: session_date_iso is the next day's date when the local hour is at or
\* after the break start hour and the current date otherwise; read hour after
\* hour it moves forward by one day exactly at the break start hour and
\* stays the same at every other hour.
C27_SessionDateRollsAtBreakStart ==
    [][ hist'.session # hist.session =>
            LET new == Val(hist'.session)
            IN  /\ new.session_date_iso =
                       IF HourOf(new.at) >= BREAK_START_HOUR
                       THEN DateOf(new.at) + 1 ELSE DateOf(new.at)
                /\ ~IsNone(hist.session) =>
                       new.session_date_iso =
                           Val(hist.session).session_date_iso
                           + (IF HourOf(new.at) = BREAK_START_HOUR
                              THEN 1 ELSE 0) ]_vars

\* the session was read at 17:00 of day 1 and gave the date of day 2
C27_Witness ==
    /\ ~IsNone(hist.session)
    /\ Val(hist.session).at = 24 + BREAK_START_HOUR
    /\ Val(hist.session).session_date_iso = 2

\* the tick() call made last has returned
TickReturned == tcl.pc = "idle" /\ ~IsNone(hist.last_tick)

\* C21: a tick writes a card if and only if its snapshot is not null and
\* either no card was written before or its now_mono_ns is at least
\* cadence_interval_ns past the now_mono_ns of the card written last; so two
\* cards written one after the other are at least an interval apart.
C21_EmitIffCadenceElapsed ==
    /\ TickReturned =>
           LET t == Val(hist.last_tick)
           IN  t.wrote <=>
                   /\ ~IsNone(t.snapshot)
                   /\ \/ IsNone(t.prev)
                      \/ t.now_mono_ns - Val(t.prev) >= CADENCE_INTERVAL_NS
    /\ \A i \in 2..Len(hist.written) :
           hist.written[i].now_mono_ns - hist.written[i - 1].now_mono_ns
               >= CADENCE_INTERVAL_NS

\* a tick exactly one interval after the last card wrote a second card, and
\* the tick made last, with a snapshot but less than an interval later,
\* wrote none
C21_Witness ==
    /\ TickReturned
    /\ Len(hist.written) = 2
    /\ hist.written[2].now_mono_ns - hist.written[1].now_mono_ns
           = CADENCE_INTERVAL_NS
    /\ ~Val(hist.last_tick).wrote
    /\ ~IsNone(Val(hist.last_tick).snapshot)

\* the card that write w put into its file, read back from the disk
CardOnDisk(w) == json_loads(strip(readlines(disk.files[w.path])[w.line]))

\* C22: every card written has the snapshot_id, ready, ready_reasons and
\* timestamp of the Snapshot passed to the tick that wrote it.
C22_CardMirrorsSnapshot ==
    \A i \in 1..Len(hist.written) :
        LET w == hist.written[i]
            card == CardOnDisk(w)
        IN  /\ ~IsNone(card)
            /\ GetKey(Val(card), "snapshot_id") = w.snapshot.snapshot_id
            /\ GetKey(Val(card), "ready") = w.snapshot.ready
            /\ GetKey(Val(card), "ready_reasons") = w.snapshot.ready_reasons
            /\ GetKey(Val(card), "ts_unix_ms") = w.snapshot.ts_unix_ms

\* two cards are on disk, for Snapshot 1 (ready) and Snapshot 2 (blocked by
\* ARM_OFF)
C22_Witness ==
    /\ Len(hist.written) = 2
    /\ hist.written[1].snapshot.snapshot_id = 1
    /\ hist.written[2].snapshot.snapshot_id = 2
    /\ GetKey(Val(CardOnDisk(hist.written[2])), "ready_reasons")
           = <<REASON_ARM_OFF>>

\* C23: every card is appended to the file named after the local date of its
\* tick and the logger's run_id, and the logger never holds more than one
\* open file: at a date change the old file is closed before the new one is
\* opened.
C23_OneFilePerDate ==
    /\ \A i \in 1..Len(hist.written) :
           hist.written[i].path
               = [ name |-> "triggercards", date |-> hist.written[i].local_date,
                   run_id |-> tcl.run_id, ext |-> "jsonl" ]
    /\ Cardinality(DOMAIN disk.handles) <= 1

\* a card went to the file of day 0 and the next to the file of day 1, which
\* is the one file open
C23_Witness ==
    /\ Len(hist.written) = 2
    /\ hist.written[1].path.date = 0
    /\ hist.written[2].path.date = 1
    /\ DOMAIN disk.handles = { hist.written[2].path }

\* a line of a file, newline included, that json.loads accepts
Decodes(line) == ~IsNone(json_loads(strip(line)))

Terminated(line) == line # <<>> /\ line[Len(line)].t = "\n"

\* complete valid JSON lines, then at most one truncated final line
CrashTolerant(text) ==
    LET lines == readlines(text)
    IN  \A i \in 1..Len(lines) :
            \/ Terminated(lines[i]) /\ Decodes(lines[i])
            \/ i = Len(lines) /\ ~Terminated(lines[i])

\* C24: wherever the process stops, every TriggerCards file on disk is a
\* sequence of complete valid JSON lines followed by at most one truncated
\* final line.
C24_FilesParseButLastLine ==
    \A path \in DOMAIN disk.files : CrashTolerant(disk.files[path])

\* the process has stopped and a file holds a complete card followed by a
\* truncated one
C24_Witness ==
    /\ proc.killed
    /\ \E path \in DOMAIN disk.files :
           LET lines == readlines(disk.files[path])
           IN  /\ Len(lines) = 2
               /\ Decodes(lines[1])
               /\ ~Terminated(lines[2]) /\ ~Decodes(lines[2])

\* C26: every TriggerCard carries the run_id of the Snapshot it was written
\* for, the one run_id of the process.
C26_OneRunId ==
    \A i \in 1..Len(hist.written) :
        LET card == CardOnDisk(hist.written[i])
        IN  ~IsNone(card) =>
                GetKey(Val(card), "run_id") = hist.written[i].snapshot.run_id

\* a line that is valid JSON with the schema 'triggercard.v1' and all the
\* required fields
IsCardLine(line) ==
    LET card == json_loads(strip(line))
    IN  /\ ~IsNone(card)
        /\ Val(card).type = "dict"
        /\ HasKey(Val(card), "schema_version")
        /\ GetKey(Val(card), "schema_version") = "triggercard.v1"
        /\ \A key \in { "run_id", "ts_unix_ms", "snapshot_id", "ready",
                        "ready_reasons" } : HasKey(Val(card), key)

IsBlankLine(line) == strip(line) = <<>>

\* the validator returned a result that reports success
ReportsSuccess == IsNone(Val(vres).raised) /\ Val(Val(vres).result).success

\* C25: validate_triggercard_file reports success if and only if every
\* non-blank line of the file is a valid card line, except that a final line
\* that fails to decode is tolerated as truncated and not counted as valid; a
\* decode failure on an earlier line is an error.
C25_ValidatorSuccessIff ==
    (~IsNone(vres) /\ ~IsNone(vfile)) =>
        LET lines == readlines(Val(vfile))
            n == Len(lines)
        IN  /\ ReportsSuccess <=>
                   \A i \in 1..n :
                       \/ IsBlankLine(lines[i])
                       \/ IsCardLine(lines[i])
                       \/ i = n /\ ~Decodes(lines[i])
            /\ IsNone(Val(vres).raised) =>
                   LET result == Val(Val(vres).result)
                   IN  /\ result.valid_count =
                               Cardinality({ i \in 1..n : IsCardLine(lines[i]) })
                       /\ result.has_truncated_line <=>
                               (n > 0 /\ ~IsBlankLine(lines[n])
                                      /\ ~Decodes(lines[n]))
                       /\ (\E i \in 1..(n - 1) :
                               ~IsBlankLine(lines[i]) /\ ~Decodes(lines[i]))
                              => ~result.success

\* a file of two cards and a truncated third line was reported a success with
\* two valid cards and a truncated line
C25_Witness ==
    /\ ~IsNone(vres) /\ ~IsNone(vfile)
    /\ Len(readlines(Val(vfile))) = 3
    /\ ReportsSuccess
    /\ Val(Val(vres).result).valid_count = 2
    /\ Val(Val(vres).result).has_truncated_line

\* C28: once error 326 has been delivered, in whichever thread, a StatusEvent
\* with error code 326 has been pushed to the InboundQueue and the process
\* has ended with a non-zero exit code.
C28_DuplicateClientIdEndsProcess ==
    ~IsNone(hist.fatal) =>
        /\ Val(hist.fatal).pushed
        /\ ~IsNone(proc.exit)
        /\ Val(proc.exit) # 0

\* C29: the display loop goes on only while the elapsed time is below the
\* duration it was given, and a process whose main() resolved a duration
\* ends only after the display loop has returned.
C29_RunsForResolvedDuration ==
    /\ proc.at = "ui_body" => UiElapsed < Val(proc.duration) * MonoPerMs
    /\ (~IsNone(proc.exit) /\ ~IsNone(proc.duration)) => ~IsNone(proc.returned)

\* the engine field that stores each nullable field of a QuoteEvent
StoredAs ==
    [ bid |-> "quote_bid", ask |-> "quote_ask", last |-> "quote_last",
      bid_size |-> "quote_bid_size", ask_size |-> "quote_ask_size",
      ts_exch_unix_ms |-> "quote_ts_exch_unix_ms" ]

\* positions of the drained QuoteEvents in which the field is non-null
CarriedAt(events, field) ==
    { i \in 1..Len(events) :
        events[i].type = "quote" /\ ~IsNone(events[i][field]) }

GreatestOf(S) == CHOOSE i \in S : \A j \in S : j <= i

\* C31: after a drain, each of bid, ask, last, bid_size, ask_size and the
\* exchange timestamp holds the value of the last drained QuoteEvent in which
\* it was non-null, and the value stored before the drain when no drained
\* QuoteEvent carried it: a null field of an event changes nothing.
C31_NullFieldsLeaveStoredValues ==
    ~IsNone(hist.evt_drain) =>
        LET before == Val(hist.evt_drain).before
            events == Val(hist.evt_drain).events
        IN  \A field \in DOMAIN StoredAs :
                engine[StoredAs[field]] =
                    IF CarriedAt(events, field) = {}
                    THEN before[StoredAs[field]]
                    ELSE events[GreatestOf(CarriedAt(events, field))][field]

\* the engine after the first n of the events of the latest drain
AfterEvents(n) ==
    ApplyEvents(Val(hist.evt_drain).before,
                SubSeq(Val(hist.evt_drain).events, 1, n))

Codes(eng) == { eng.feed_status_reason_codes[i] :
                    i \in 1..Len(eng.feed_status_reason_codes) }

\* C36: a drained AdapterErrorEvent with a message adds the message to the
\* stored feed reason codes and removes none of the codes stored before it.
C36_ErrorMessageAppended ==
    ~IsNone(hist.evt_drain) =>
        \A i \in 1..Len(Val(hist.evt_drain).events) :
            LET event == Val(hist.evt_drain).events[i]
            IN  (event.type = "error" /\ event.error_msg # "") =>
                    /\ event.error_msg \in Codes(AfterEvents(i))
                    /\ Codes(AfterEvents(i - 1)) \subseteq Codes(AfterEvents(i))

\* max(0, cycle start minus receipt time) in whole milliseconds, null
\* without a receipt time
ExpectedStaleness(snapshot) ==
    IF IsNone(snapshot.quote.ts_recv_mono_ns) THEN None
    ELSE LET age == snapshot.ts_mono_ns - Val(snapshot.quote.ts_recv_mono_ns)
         IN  Some(IF age < 0 THEN 0 ELSE age \div MonoPerMs)

\* C37: once a cycle has run, the DataHub holds a Snapshot, and its
\* quote.staleness_ms is null without a stored receipt time and otherwise
\* max(0, cycle start - receipt time) in milliseconds, never negative.
C37_StalenessNeverNegative ==
    hist.cycles > 0 =>
        /\ hub # None
        /\ Val(hub).quote.staleness_ms = ExpectedStaleness(Val(hub))

\* C39: the session fields of the Snapshot a cycle builds are the values of
\* in_operating_window, is_break_window and session_date_iso at one and the
\* same local time, one the clock has shown since the start.
C39_SessionFieldsAtOneTime ==
    hist.last_cycle # None =>
        \E h \in LocalStartHour..local_h :
            /\ Built.session.in_operating_window = in_operating_window(h)
            /\ Built.session.is_break_window = is_break_window(h)
            /\ Built.session.session_date_iso = session_date_iso(h)

\* C32: no tick ends with an exception, whatever I/O error the open, the
\* writes or the sync met.
C32_IoErrorsStayInTick ==
    ~IsNone(hist.last_tick) => IsNone(Val(hist.last_tick).raised)

\* C40: between two calls the logger holds an open file for the date it
\* records, and no tick fails for want of a file.
C40_DateOnlyWithOpenFile ==
    /\ (tcl.pc = "idle" /\ ~IsNone(tcl.current_date)) =>
           tcl.current_file =
               Some(_get_filepath(Val(tcl.current_date), tcl.run_id))
    /\ ~IsNone(hist.last_tick) =>
           Val(hist.last_tick).raised # Some("RuntimeError")

\* a stop() that followed a start() has returned
StopReturned ==
    /\ ctl = "idle"
    /\ ~engine.running
    /\ \E t \in Threads : pc[t] # "unstarted"

\* C33: when EngineLoop.stop has returned, close() has been called on the
\* TriggerCardLogger and the logger holds no open file.
C33_StopClosesLogger ==
    StopReturned =>
        /\ hist.closes > 0
        /\ IsNone(tcl.current_file)

\* the lists of queue k: those returned, then those of the drains under way
ListsOf(k) ==
    LET returned == SelectSeq(hist.batches, LAMBDA b : b.kind = k)
        under_way == { t \in Threads : pc[t] = InDrain(k) }
    IN  { returned[i].items : i \in 1..Len(returned) }
            \cup { ListOf(t, k) : t \in under_way }

\* how many times an item occurs in the lists of queue k
Occurrences(k, item) ==
    LET returned == SelectSeq(hist.batches, LAMBDA b : b.kind = k)
        In(list) == Cardinality({ i \in 1..Len(list) : list[i] = item })
        RECURSIVE Sum(_)
        Sum(n) == IF n = 0 THEN 0 ELSE In(returned[n].items) + Sum(n - 1)
        RECURSIVE SumT(_)
        SumT(T) == IF T = {} THEN 0
                   ELSE LET t == CHOOSE u \in T : TRUE
                        IN  (IF pc[t] = InDrain(k) THEN In(ListOf(t, k)) ELSE 0)
                                + SumT(T \ {t})
    IN  Sum(Len(returned)) + SumT(Threads)

\* position of an item among the accepted pushes of queue k
PushedAt(k, item) ==
    CHOOSE i \in 1..Len(hist.accepted[k]) : hist.accepted[k][i] = item

\* C34 as stated: a drain is over within a number of steps that no producer
\* can stretch: it never collects more items than the queue can hold.
C34_DrainWithinCapacity ==
    \A t \in Threads, k \in Kinds :
        pc[t] = InDrain(k) => Len(ListOf(t, k)) <= CapacityOf(k)

\* C34: a thread inside a drain never waits: its next step, taking an item or
\* returning, is possible whatever the queue holds and whatever the
\* producers do; the drain returns only on an empty queue, and it has taken
\* no more steps than items were pushed.
C34_DrainNeverWaits ==
    /\ \A t \in Threads, k \in Kinds :
           pc[t] = InDrain(k) =>
               /\ ENABLED (DrainTake(t, k) \/ DrainFinish(t, k))
               /\ Len(ListOf(t, k)) <= Len(hist.accepted[k])
    /\ \A i \in 1..Len(hist.batches) :
           Len(hist.batches[i].items) <= Len(hist.accepted[hist.batches[i].kind])

\* a drain has returned more items than its queue can hold, pushed while it
\* ran, and another thread is inside a drain of the queue, now empty
C34_Witness ==
    \E i \in 1..Len(hist.batches), t \in Threads :
        LET b == hist.batches[i]
        IN  /\ Len(b.items) > CapacityOf(b.kind)
            /\ pc[t] = InDrain(b.kind)
            /\ QueueOf(b.kind) = <<>>

\* C35: what get_nowait has handed out, in that order, followed by what is
\* queued, is exactly the accepted pushes in push order; every item handed
\* out is in exactly one drain's list, a rejected item in none; and within a
\* list the items are in push order.
C35_ExactlyOnceInOrder ==
    \A k \in Kinds :
        /\ hist.delivered[k] \o QueueOf(k) = hist.accepted[k]
        /\ \A i \in 1..Len(hist.delivered[k]) :
               Occurrences(k, hist.delivered[k][i]) = 1
        /\ \A list \in ListsOf(k) :
               /\ \A i \in 1..Len(list) : Has(hist.delivered[k], list[i])
               /\ \A i, j \in 1..Len(list) :
                      i < j => PushedAt(k, list[i]) < PushedAt(k, list[j])

\* both producers have pushed events, one push was rejected by the full
\* queue, and the accepted events were returned by two different drains
C35_Witness ==
    /\ hist.inputs = MaxDrainPushes
    /\ Len(hist.accepted.evt) = MaxDrainPushes - 1
    /\ inq = <<>>
    /\ \E i, j \in 1..Len(hist.batches) :
           /\ hist.batches[i].thread # hist.batches[j].thread
           /\ hist.batches[i].items # <<>> /\ hist.batches[j].items # <<>>
           /\ hist.batches[i].kind = "evt" /\ hist.batches[j].kind = "evt"
           /\ hist.batches[i].items[1].ts_recv_unix_ms
                  # hist.batches[j].items[1].ts_recv_unix_ms

\* C38: the step in which AdapterRunner.stop runs appends a StatusEvent with
\* connected = false to the InboundQueue, when the queue has room for it.
C38_StopPushesDisconnected ==
    [][ (adp.running /\ ~adp'.running /\ CanPut(inq, InQueueMax)) =>
            \E event \in { inq'[i] : i \in 1..Len(inq') } :
                /\ inq' = Append(inq, event)
                /\ event.type = "status"
                /\ ~event.connected ]_vars

====
